---- MODULE Spec2Model ----
(***************************************************************************)
(* A model of bytemaker: the numeric codec (bittypes/int.py, utils.py),    *)
(* the float codec (bittypes/float.py), the typed bit-values               *)
(* (bittypes/bittype.py, int.py, float.py, string.py, buffer.py) and the   *)
(* structural (de)serializer (conversions/aggregate_types.py).             *)
(*                                                                         *)
(* A Python str of binary digits is a sequence of the one-character        *)
(* strings "0", "1" (and "-", "b" where the code can produce them); a      *)
(* BitVector is a sequence of the integers 0 and 1.  A call that raises is *)
(* a result whose err field names the exception.                           *)
(***************************************************************************)
EXTENDS Integers, Sequences, FiniteSets, TLC

VARIABLES intc, fltc, bt, agg, bvec

vars == <<intc, fltc, bt, agg, bvec>>

(***************************************************************************)
(* Bounds of the model.                                                    *)
(***************************************************************************)
MaxBitLength == 8
MaxAbsValue == 129
MaxBigExp == 52
MaxBigOff == 2
MinBigExp == 46
MaxExpBits == 3
MaxMantBits == 3
MaxFloatNum == 15
MaxFloatShift == 6
MaxSmallInt == 9
MaxSampleShift == 2
MaxBufferLen == 5
MaxDelta == 1
MaxVectorLen == 9
MaxCopies == 2
MaxHaystackLen == 3
MaxCandidateLen == 2
MaxSubstrings == 2
MaxReplaceLen == 6
MaxOldLen == 2
MaxNewLen == 2
MaxCount == 3
MaxLoopLen == 2
MaxLoopCount == 2
MaxAccumulated == 6
MaxSourceBytes == 1
MaxSourceLen == 3
MaxOperandLen == 3
MaxShift == 3
MaxTableLen == 2
MaxTableChanges == 1
MaxReceiverLen == 3
MaxSepLen == 2
MaxIndex == 3
MaxValuesLen == 2

Idle == [op |-> "idle"]

(***************************************************************************)
(* Python primitives used by the codecs.                                   *)
(***************************************************************************)
RECURSIVE Pow2(_)
Pow2(n) == IF n <= 0 THEN 1 ELSE 2 * Pow2(n - 1)

abs(n) == IF n < 0 THEN -n ELSE n

Min(a, b) == IF a < b THEN a ELSE b

Repeat(c, n) == [i \in 1..n |-> c]

\* bin(n)[2:] for n >= 0
RECURSIVE bin(_)
bin(n) == IF n < 2 THEN <<IF n = 1 THEN "1" ELSE "0">>
          ELSE bin(n \div 2) \o <<IF n % 2 = 1 THEN "1" ELSE "0">>

\* str.zfill(width) of a string without a sign
zfill(s, width) == Repeat("0", width - Len(s)) \o s

\* int(s, 2) for a string of binary digits; the empty string raises in
\* Python and is never passed here
RECURSIVE int2(_)
int2(s) == IF Len(s) = 0 THEN 0
           ELSE 2 * int2(SubSeq(s, 1, Len(s) - 1))
                + (IF s[Len(s)] = "1" THEN 1 ELSE 0)

Ok(v) == [err |-> "none", val |-> v]

Raise(e) == [err |-> e, val |-> <<>>]

(***************************************************************************)
(* Int.to_bitstring and its local helpers.                                 *)
(***************************************************************************)
unsigned_int_to_bitstring(n, bit_length) ==
    IF n < 0 \/ n >= Pow2(bit_length)
    THEN Raise("ValueError")
    ELSE Ok(zfill(bin(n), bit_length))

int_to_twos_complement(n, bit_length) ==
    IF n < -Pow2(bit_length - 1) \/ n >= Pow2(bit_length - 1)
    THEN Raise("ValueError")
    ELSE Ok(zfill(bin(IF n < 0 THEN Pow2(bit_length) + n ELSE n), bit_length))

\* int_to_ones_complement without its range check
int_to_ones_complement_unchecked(n, bit_length) ==
    LET magnitude_string == unsigned_int_to_bitstring(abs(n), bit_length)
    IN  IF magnitude_string.err # "none" THEN magnitude_string
        ELSE IF n >= 0 THEN magnitude_string
        ELSE Ok([i \in 1..Len(magnitude_string.val) |->
                   IF magnitude_string.val[i] = "1" THEN "0" ELSE "1"])

int_to_ones_complement(n, bit_length) ==
    IF abs(n) > Pow2(bit_length - 1) - 1
    THEN Raise("ValueError")
    ELSE LET magnitude_string == unsigned_int_to_bitstring(abs(n), bit_length)
         IN  IF magnitude_string.err # "none" THEN magnitude_string
             ELSE IF n >= 0 THEN magnitude_string
             ELSE Ok([i \in 1..Len(magnitude_string.val) |->
                        IF magnitude_string.val[i] = "1" THEN "0" ELSE "1"])

int_to_signed_magnitude(n, bit_length) ==
    IF abs(n) > Pow2(bit_length - 1) - 1
    THEN Raise("ValueError")
    ELSE LET m == unsigned_int_to_bitstring(abs(n), bit_length - 1)
         IN  IF m.err # "none" THEN m
             ELSE Ok(<<IF n >= 0 THEN "0" ELSE "1">> \o m.val)

\* rep_format is "twos_complement", "signed_magnitude" (also spelt
\* "sign_magnitude") or "ones_complement"
to_bitstring(value, signed, bit_length, rep_format) ==
    IF bit_length <= 0 THEN Raise("ValueError")
    ELSE IF ~signed THEN unsigned_int_to_bitstring(value, bit_length)
    ELSE IF rep_format = "twos_complement"
         THEN int_to_twos_complement(value, bit_length)
    ELSE IF rep_format \in {"signed_magnitude", "sign_magnitude"}
         THEN int_to_signed_magnitude(value, bit_length)
    ELSE IF rep_format = "ones_complement"
         THEN int_to_ones_complement(value, bit_length)
    ELSE Raise("ValueError")

(***************************************************************************)
(* Int.to_pyint on a str of binary digits.  int(bitstring[1:], 2) raises   *)
(* ValueError when bitstring[1:] is the empty str.                         *)
(***************************************************************************)
\* to_pyint reading a one's-complement negative as a two's-complement one
to_pyint_ones_as_twos(bitstring, signed, bin_format) ==
    IF Len(bitstring) = 0 THEN Raise("ValueError")
    ELSE IF ~signed THEN Ok(int2(bitstring))
    ELSE IF bin_format = "signed_magnitude"
         THEN IF Len(bitstring) = 1 THEN Raise("ValueError")
              ELSE IF bitstring[1] = "1"
                   THEN Ok(-int2(Tail(bitstring)))
                   ELSE Ok(int2(Tail(bitstring)))
    ELSE IF bitstring[1] = "1"
         THEN Ok(-Pow2(Len(bitstring)) + int2(bitstring))
         ELSE Ok(int2(bitstring))

to_pyint(bitstring, signed, bin_format) ==
    IF Len(bitstring) = 0 THEN Raise("ValueError")
    ELSE IF ~signed THEN Ok(int2(bitstring))
    ELSE IF bin_format = "twos_complement"
         THEN IF bitstring[1] = "1"
              THEN Ok(-Pow2(Len(bitstring)) + int2(bitstring))
              ELSE Ok(int2(bitstring))
    ELSE IF bin_format \in {"signed_magnitude", "sign_magnitude"}
         THEN IF Len(bitstring) = 1 THEN Raise("ValueError")
              ELSE IF bitstring[1] = "1"
                   THEN Ok(-int2(Tail(bitstring)))
                   ELSE Ok(int2(Tail(bitstring)))
    ELSE IF bin_format = "ones_complement"
         THEN IF bitstring[1] = "1"
              THEN IF Len(bitstring) = 1 THEN Raise("ValueError")
                   ELSE Ok(-(Pow2(Len(bitstring) - 1) - int2(Tail(bitstring)) - 1))
              ELSE Ok(int2(bitstring))
    ELSE Raise("ValueError")

(***************************************************************************)
(* Integers of any magnitude.  A Python int is modelled as a record        *)
(* [neg, exp, off] standing for (+/-)(2^exp + off) with 0 <= off < 2^exp;  *)
(* zero is exp = -1.  Only exp and off are ever computed with, so          *)
(* magnitudes beyond the checker's machine integers are covered.           *)
(***************************************************************************)
RECURSIVE FloorLog2(_)
FloorLog2(n) == IF n < 2 THEN 0 ELSE 1 + FloorLog2(n \div 2)

BigZero == [neg |-> FALSE, exp |-> -1, off |-> 0]

ToBig(n) == IF n = 0 THEN BigZero
            ELSE [neg |-> n < 0, exp |-> FloorLog2(abs(n)),
                  off |-> abs(n) - Pow2(FloorLog2(abs(n)))]

BigIsZero(v) == v.exp = -1

\* abs(n)
BigAbs(v) == [v EXCEPT !.neg = FALSE]

\* abs_val + 1
BigSucc(m) == IF m.exp = -1 THEN [neg |-> FALSE, exp |-> 0, off |-> 0]
              ELSE IF m.exp <= 30 /\ m.off + 1 = Pow2(m.exp)
                   THEN [neg |-> FALSE, exp |-> m.exp + 1, off |-> 0]
                   ELSE [neg |-> FALSE, exp |-> m.exp, off |-> m.off + 1]

\* (abs_val & (abs_val - 1)) == 0, for abs_val >= 1
is_power_of_two(m) == m.off = 0

(***************************************************************************)
(* math.log2 on a Python int: the int is converted to an IEEE-754 double   *)
(* (53 significant bits, round half to even) and the logarithm is          *)
(* returned as the nearest double.  For x = 2^e + k the exact logarithm is *)
(* e + log2(1 + k/2^e); the doubles next to e are spaced 2^(j-52) apart    *)
(* with j = floor(log2(e)), so the result is the double e itself when      *)
(* k/(2^e ln 2) is below half that spacing, i.e. k < ln2 * 2^(e+j-53).     *)
(***************************************************************************)
DoubleMantissaBits == 52

Ln2Micro == 693147

RoundHalfEven(k, q) ==
    LET lo == k \div q
        r  == k % q
    IN  IF 2 * r < q THEN lo * q
        ELSE IF 2 * r > q THEN (lo + 1) * q
        ELSE IF lo % 2 = 0 THEN lo * q ELSE (lo + 1) * q

\* float(m): the double nearest to the magnitude m (m.exp >= 0)
ToDouble(m) ==
    IF m.exp <= DoubleMantissaBits THEN m
    ELSE [m EXCEPT !.off = RoundHalfEven(m.off, Pow2(m.exp - DoubleMantissaBits))]

\* does log2(2^e + k), k >= 1, round to the double e?
Log2RoundsToExponent(e, k) ==
    LET d == e + FloorLog2(e) - (DoubleMantissaBits + 1)
    IN  e >= 1 /\ d >= 1 /\ k * 1000000 < Ln2Micro * Pow2(d)

\* ceil(log2(m)) as math.ceil(math.log2(m)) computes it, m >= 1
ceil_log2(m) ==
    LET x == ToDouble(m)
    IN  IF x.off = 0 THEN x.exp
        ELSE IF Log2RoundsToExponent(x.exp, x.off) THEN x.exp
        ELSE x.exp + 1

\* int(log2(abs_val)) for a power of two
int_log2(m) == m.exp

(***************************************************************************)
(* utils.twos_complement_bit_length and Int.min_bit_length.                *)
(***************************************************************************)
twos_complement_bit_length(n) ==
    IF BigIsZero(n) THEN 1
    ELSE LET is_greq_than_zero == ~n.neg
             abs_val == BigAbs(n)
         IN  IF is_greq_than_zero \/ ~is_power_of_two(abs_val)
             THEN ceil_log2(BigSucc(abs_val)) + 1
             ELSE int_log2(abs_val) + 1

\* called with value >= 0 when signed is FALSE
min_bit_length(value, signed, bin_format) ==
    LET n == value
    IN  IF ~signed
        THEN IF BigIsZero(n) THEN 1 ELSE ceil_log2(BigSucc(n))
        ELSE IF bin_format = "twos_complement"
             THEN IF BigIsZero(n) THEN 1
                  ELSE IF ~n.neg \/ ~is_power_of_two(BigAbs(n))
                       THEN ceil_log2(BigSucc(BigAbs(n))) + 1
                       ELSE int_log2(BigAbs(n)) + 1
        ELSE IF BigIsZero(n) THEN 1
             ELSE ceil_log2(BigSucc(BigAbs(n))) + 1

Formats == {"twos_complement", "signed_magnitude", "ones_complement"}

Values == (-MaxAbsValue)..MaxAbsValue

BitLengths == 1..MaxBitLength

BigValues == {ToBig(n) : n \in Values}
             \cup [neg : BOOLEAN, exp : MinBigExp..MaxBigExp, off : 0..MaxBigOff]

(***************************************************************************)
(* The numeric codec as a state machine: intc is the last call made.       *)
(***************************************************************************)
ToBitstring(v, signed, n, fmt) ==
    /\ intc.op = "idle"
    /\ intc' = [op |-> "to_bitstring", value |-> v, signed |-> signed,
                bit_length |-> n, format |-> fmt,
                res |-> to_bitstring(v, signed, n, fmt)]
    /\ UNCHANGED <<fltc, bt, agg, bvec>>

\* decode the string the previous to_bitstring call returned
ToPyint ==
    /\ intc.op = "to_bitstring"
    /\ intc.res.err = "none"
    /\ intc' = [op |-> "to_pyint", value |-> intc.value, signed |-> intc.signed,
                bit_length |-> intc.bit_length, format |-> intc.format,
                bitstring |-> intc.res.val,
                res |-> to_pyint(intc.res.val, intc.signed, intc.format)]
    /\ UNCHANGED <<fltc, bt, agg, bvec>>

MinBitLength(v, signed, fmt) ==
    /\ intc.op = "idle"
    /\ intc' = [op |-> "min_bit_length", value |-> v, signed |-> signed,
                format |-> fmt, res |-> min_bit_length(v, signed, fmt)]
    /\ UNCHANGED <<fltc, bt, agg, bvec>>

TwosComplementBitLength(v) ==
    /\ intc.op = "idle"
    /\ intc' = [op |-> "twos_complement_bit_length", value |-> v, signed |-> TRUE,
                format |-> "twos_complement",
                res |-> twos_complement_bit_length(v)]
    /\ UNCHANGED <<fltc, bt, agg, bvec>>

\* the caller takes the result; the codec is ready for the next call
IntReturn ==
    /\ intc.op # "idle"
    /\ intc' = Idle
    /\ UNCHANGED <<fltc, bt, agg, bvec>>

InitInt == intc = Idle /\ fltc = Idle /\ bt = Idle /\ agg = Idle /\ bvec = Idle

NextInt ==
    \/ \E v \in Values, n \in BitLengths, fmt \in Formats :
          ToBitstring(v, TRUE, n, fmt)
    \/ \E v \in Values, n \in BitLengths : ToBitstring(v, FALSE, n, "none")
    \/ ToPyint
    \/ \E v \in BigValues, fmt \in Formats : MinBitLength(v, TRUE, fmt)
    \/ \E v \in {b \in BigValues : ~b.neg} : MinBitLength(v, FALSE, "none")
    \/ \E v \in BigValues : TwosComplementBitLength(v)
    \/ IntReturn

SpecInt == InitInt /\ [][NextInt]_vars

(***************************************************************************)
(* Python floats.  A float is [kind, neg, num, sh]: kind "fin" stands for  *)
(* (+/-) num * 2^sh with num odd, and "zero", "inf", "nan" for the special *)
(* values.  The values used are exact in double precision, so the float    *)
(* arithmetic of the codec (int(), subtraction, doubling) is exact on them.*)
(* A nan keeps its sign in neg and, in num, the 22 payload bits below the  *)
(* quiet bit of its single-precision form; float('nan') is FNaN.           *)
(***************************************************************************)
FZero(neg) == [kind |-> "zero", neg |-> neg, num |-> 0, sh |-> 0]

FInf(neg) == [kind |-> "inf", neg |-> neg, num |-> 0, sh |-> 0]

FNaN == [kind |-> "nan", neg |-> FALSE, num |-> 0, sh |-> 0]

RECURSIVE FNormalize(_, _, _)
FNormalize(neg, num, sh) ==
    IF num = 0 THEN FZero(neg)
    ELSE IF num % 2 = 0 THEN FNormalize(neg, num \div 2, sh + 1)
    ELSE [kind |-> "fin", neg |-> neg, num |-> num, sh |-> sh]

\* Python's == on floats: NaN equals nothing, -0.0 equals 0.0
FloatEq(a, b) ==
    /\ a.kind # "nan" /\ b.kind # "nan"
    /\ a.kind = b.kind
    /\ (a.kind = "zero" \/ a = b)

\* value >= 0
FloatGeqZero(a) == a.kind # "nan" /\ (a.kind = "zero" \/ ~a.neg)

\* bin(int(abs_num))[2:] of a finite float
integral_bin(a) ==
    IF a.kind = "zero" THEN <<"0">>
    ELSE IF a.sh >= 0 THEN bin(a.num) \o Repeat("0", a.sh)
    ELSE IF -a.sh > FloorLog2(a.num) THEN <<"0">>
    ELSE bin(a.num \div Pow2(-a.sh))

\* abs_num - integral_part, as the numerator over 2^FracDen(a)
FracNum(a) ==
    IF a.kind = "zero" \/ a.sh >= 0 THEN 0
    ELSE IF -a.sh > FloorLog2(a.num) THEN a.num
    ELSE a.num % Pow2(-a.sh)

FracDen(a) == IF a.kind = "zero" \/ a.sh >= 0 THEN 0 ELSE -a.sh

(***************************************************************************)
(* Float.to_binstring and its local helpers.                               *)
(***************************************************************************)
get_sign_bit(value) == IF FloatGeqZero(value) THEN 0 ELSE 1

\* the while loop of frac_to_bin on the fraction f / 2^d: the doubled
\* fraction is f / 2^(d-1), and its integer part is 1 when f >= 2^(d-1)
RECURSIVE frac_to_bin_loop(_, _, _, _)
frac_to_bin_loop(f, d, bits, result) ==
    IF f = 0 \/ Len(result) >= bits THEN result
    ELSE IF FloorLog2(f) + 1 >= d
         THEN frac_to_bin_loop(2 * f - Pow2(d), d, bits, Append(result, "1"))
         ELSE frac_to_bin_loop(f, d - 1, bits, Append(result, "0"))

frac_to_bin(f, d, bits) == frac_to_bin_loop(f, d, bits, <<>>)

\* str.index("1"), 0-based; -1 stands for the ValueError it raises
index_of_one(str) ==
    IF \E i \in 1..Len(str) : str[i] = "1"
    THEN (CHOOSE i \in 1..Len(str) :
             str[i] = "1" /\ \A j \in 1..(i - 1) : str[j] # "1") - 1
    ELSE -1

get_exponent_bias(num_exponent_bits) == Pow2(num_exponent_bits - 1) - 1

\* bin(integer).replace("0b", "").zfill(bits)
int_to_binary(integer, bits) ==
    IF integer >= 0 THEN zfill(bin(integer), bits)
    ELSE <<"-">> \o zfill(bin(-integer), bits - 1)

\* str.ljust(width, "0")
ljust(str, width) == str \o Repeat("0", width - Len(str))

assemble_bits(sign, biased_exponent, mantissa, num_exponent_bits, num_mantissa_bits) ==
    <<IF sign = 1 THEN "1" ELSE "0">>
    \o int_to_binary(biased_exponent, num_exponent_bits)
    \o ljust(SubSeq(mantissa, 1, Min(Len(mantissa), num_mantissa_bits)),
             num_mantissa_bits)

float_to_binstring(num, num_exponent_bits, num_mantissa_bits) ==
    IF FloatEq(num, FZero(FALSE))
    THEN Ok(<<"0">> \o Repeat("0", num_exponent_bits + num_mantissa_bits))
    ELSE IF FloatEq(num, FInf(FALSE))
    THEN Ok(<<"0">> \o Repeat("1", num_exponent_bits)
                    \o Repeat("0", num_mantissa_bits))
    ELSE IF FloatEq(num, FInf(TRUE))
    THEN Ok(<<"1">> \o Repeat("1", num_exponent_bits)
                    \o Repeat("0", num_mantissa_bits))
    ELSE IF FloatEq(num, FNaN)
    THEN Ok(<<"0">> \o Repeat("1", num_exponent_bits + 1)
                    \o Repeat("0", num_mantissa_bits - 1))
    ELSE IF num.kind = "nan" THEN Raise("ValueError")
    ELSE LET sign_bit == get_sign_bit(num)
             integral_bin_ == integral_bin(num)
             fractional_bin == frac_to_bin(FracNum(num), FracDen(num),
                                           num_mantissa_bits + 1)
             combined == integral_bin_ \o fractional_bin
             first_one == index_of_one(combined)
             exponent == Len(integral_bin_) - first_one - 1
             biased_exponent == exponent + get_exponent_bias(num_exponent_bits)
             mantissa_bits == SubSeq(combined, first_one + 2, Len(combined))
         IN  IF first_one = -1 THEN Raise("ValueError")
             ELSE Ok(assemble_bits(sign_bit, biased_exponent, mantissa_bits,
                                   num_exponent_bits, num_mantissa_bits))

(***************************************************************************)
(* BitVector(str) on a str without 0b/0o/0x prefix: from01, which drops    *)
(* the characters "_", "-", " ", ":" and hands the rest to bitarray.       *)
(***************************************************************************)
RECURSIVE strip_separators(_)
strip_separators(string) ==
    IF Len(string) = 0 THEN <<>>
    ELSE IF Head(string) \in {"_", "-", " ", ":"}
         THEN strip_separators(Tail(string))
         ELSE <<Head(string)>> \o strip_separators(Tail(string))

from01(string) ==
    LET str == strip_separators(string)
    IN  IF \A i \in 1..Len(str) : str[i] \in {"0", "1"}
        THEN Ok([i \in 1..Len(str) |-> IF str[i] = "1" THEN 1 ELSE 0])
        ELSE Raise("ValueError")

\* BitVector.to01()
to01(bits) == [i \in 1..Len(bits) |-> IF bits[i] = 1 THEN "1" ELSE "0"]

\* the unsigned integer a run of bits spells, most significant first
RECURSIVE BitsToNat(_)
BitsToNat(bits) == IF Len(bits) = 0 THEN 0
                   ELSE 2 * BitsToNat(SubSeq(bits, 1, Len(bits) - 1)) + bits[Len(bits)]

(***************************************************************************)
(* Float.value: the getter and the setter of a Float with                  *)
(* num_exponent_bits and num_mantissa_bits that is not struct-packed.      *)
(***************************************************************************)
float_value_get(bits, num_exponent_bits, num_mantissa_bits) ==
    LET exponent == BitsToNat(SubSeq(bits, 2, 1 + num_exponent_bits))
        unbiased_exponent == exponent - (Pow2(num_exponent_bits - 1) - 1)
        mantissa == BitsToNat(SubSeq(bits, 2 + num_exponent_bits,
                                     1 + num_exponent_bits + num_mantissa_bits))
    IN  FNormalize(bits[1] = 1, Pow2(num_mantissa_bits) + mantissa,
                   unbiased_exponent - num_mantissa_bits)

\* the bits the instance holds after `self.value = value`, or the error
float_value_set(value, num_exponent_bits, num_mantissa_bits) ==
    LET str == float_to_binstring(value, num_exponent_bits, num_mantissa_bits)
    IN  IF str.err # "none" THEN str
        ELSE LET bv == from01(str.val)
             IN  IF bv.err # "none" THEN bv
                 ELSE IF Len(bv.val) # 1 + num_exponent_bits + num_mantissa_bits
                      THEN Raise("ValueError")
                      ELSE bv

FloatValues ==
    {FZero(FALSE), FZero(TRUE), FInf(FALSE), FInf(TRUE), FNaN}
    \cup {FNormalize(neg, n, sh) :
            neg \in BOOLEAN,
            n \in {k \in 1..MaxFloatNum : k % 2 = 1},
            sh \in (-MaxFloatShift)..MaxFloatShift}

ExponentBits == 1..MaxExpBits

MantissaBits == 1..MaxMantBits

(***************************************************************************)
(* The float codec as a state machine: fltc is the last call made.         *)
(***************************************************************************)
FloatToBinstring(v, e, m) ==
    /\ fltc.op = "idle"
    /\ fltc' = [op |-> "to_binstring", value |-> v, num_exponent_bits |-> e,
                num_mantissa_bits |-> m, res |-> float_to_binstring(v, e, m)]
    /\ UNCHANGED <<intc, bt, agg, bvec>>

\* x.value = v on a Float with e exponent bits and m mantissa bits
FloatAssign(v, e, m) ==
    /\ fltc.op = "idle"
    /\ fltc' = [op |-> "assign", value |-> v, num_exponent_bits |-> e,
                num_mantissa_bits |-> m, res |-> float_value_set(v, e, m)]
    /\ UNCHANGED <<intc, bt, agg, bvec>>

\* reading x.value after the assignment returned
FloatRead ==
    /\ fltc.op = "assign"
    /\ fltc.res.err = "none"
    /\ fltc' = [op |-> "read", value |-> fltc.value,
                num_exponent_bits |-> fltc.num_exponent_bits,
                num_mantissa_bits |-> fltc.num_mantissa_bits,
                res |-> Ok(float_value_get(fltc.res.val, fltc.num_exponent_bits,
                                           fltc.num_mantissa_bits))]
    /\ UNCHANGED <<intc, bt, agg, bvec>>

FloatReturn ==
    /\ fltc.op # "idle"
    /\ fltc' = Idle
    /\ UNCHANGED <<intc, bt, agg, bvec>>

InitFloat == intc = Idle /\ fltc = Idle /\ bt = Idle /\ agg = Idle /\ bvec = Idle

NextFloat ==
    \/ \E v \in FloatValues, e \in ExponentBits, m \in MantissaBits :
          FloatToBinstring(v, e, m)
    \/ \E v \in FloatValues, e \in ExponentBits, m \in MantissaBits :
          FloatAssign(v, e, m)
    \/ FloatRead
    \/ FloatReturn

SpecFloat == InitFloat /\ [][NextFloat]_vars

(***************************************************************************)
(* BitVector operations used by the typed bit-values and the serializer.   *)
(* A BitVector is a sequence of 0/1, a bytes object a BitVector whose      *)
(* length is a multiple of 8.                                              *)
(***************************************************************************)
\* BitVector.from_int for an integer that fits: bit i is (integer >> i) & 1
RECURSIVE TwosBits(_, _)
TwosBits(integer, size) ==
    IF size = 0 THEN <<>>
    ELSE TwosBits(integer \div 2, size - 1) \o <<integer % 2>>

\* int.bit_length()
bit_length(integer) == IF integer = 0 THEN 0 ELSE FloorLog2(abs(integer)) + 1

from_int(integer, size) ==
    IF bit_length(integer) > size THEN Raise("ValueError")
    ELSE Ok(TwosBits(integer, size))

\* bytes(bits): bitarray.tobytes(), the last byte zero-padded on the right
tobytes(bits) == bits \o Repeat(0, (8 - (Len(bits) % 8)) % 8)

\* bytes[::-1]
ReverseBytes(bytes) ==
    [i \in 1..Len(bytes) |->
        bytes[((Len(bytes) \div 8) - 1 - ((i - 1) \div 8)) * 8 + ((i - 1) % 8) + 1]]

\* the two's-complement integer a run of bits spells
SignedFromBits(bits) ==
    IF bits[1] = 1
    THEN -(BitsToNat([i \in 1..(Len(bits) - 1) |-> 1 - bits[i + 1]]) + 1)
    ELSE BitsToNat(Tail(bits))

\* BitVector.to_bytes: every run of 8 bits is a byte, and a last run of
\* k < 8 bits is the byte whose value those k bits spell
RECURSIVE byte_arr(_)
byte_arr(bits) ==
    IF Len(bits) = 0 THEN <<>>
    ELSE IF Len(bits) < 8 THEN Repeat(0, 8 - Len(bits)) \o bits
    ELSE SubSeq(bits, 1, 8) \o byte_arr(SubSeq(bits, 9, Len(bits)))

to_bytes(bits, reverse_endianness) ==
    IF reverse_endianness THEN ReverseBytes(byte_arr(bits)) ELSE byte_arr(bits)

\* BitVector.lpad
lpad(bits, width, fillbit) ==
    IF Len(bits) >= width THEN bits
    ELSE Repeat(fillbit, width - Len(bits)) \o bits

\* int.from_bytes(bytes, byteorder=..., signed=...)
int_from_bytes(bytes, byteorder, signed) ==
    LET big == IF byteorder = "big" THEN bytes ELSE ReverseBytes(bytes)
    IN  IF signed /\ Len(big) > 0 /\ big[1] = 1
        THEN BitsToNat(big) - Pow2(Len(big))
        ELSE BitsToNat(big)

\* BitVector.to_int
to_int(bits, endianness, signed) ==
    LET next_multiple_of_8 == ((Len(bits) + 7) \div 8) * 8
        copy == IF signed /\ Len(bits) > 0 /\ bits[1] = 1
                THEN lpad(bits, next_multiple_of_8, 1)
                ELSE bits
    IN  int_from_bytes(to_bytes(copy, FALSE), endianness, signed)

\* BitVector.from_int with size omitted
from_int_default(integer) ==
    from_int(integer, twos_complement_bit_length(ToBig(integer)))

(***************************************************************************)
(* struct.pack / struct.unpack for the format letters of the struct-packed *)
(* bit-types.  The floats packed are exact in single precision, so "f"     *)
(* packs them without rounding.                                            *)
(***************************************************************************)
StructSize(letter) ==
    CASE letter \in {"B", "b"} -> 1
      [] letter \in {"H", "h"} -> 2
      [] letter \in {"i", "f"} -> 4

StructInRange(letter, v) ==
    CASE letter = "B" -> 0 <= v /\ v <= 255
      [] letter = "b" -> -128 <= v /\ v <= 127
      [] letter = "H" -> 0 <= v /\ v <= 65535
      [] letter = "h" -> -32768 <= v /\ v <= 32767
      [] letter = "i" -> TRUE

pack_single(v) ==
    CASE v.kind = "zero" -> Ok(<<IF v.neg THEN 1 ELSE 0>> \o Repeat(0, 31))
      [] v.kind = "inf" ->
            Ok(<<IF v.neg THEN 1 ELSE 0>> \o Repeat(1, 8) \o Repeat(0, 23))
      [] v.kind = "nan" ->
            Ok(<<IF v.neg THEN 1 ELSE 0>> \o Repeat(1, 9) \o TwosBits(v.num, 22))
      [] v.kind = "fin" ->
            LET L == FloorLog2(v.num) + 1
                e == v.sh + L - 1
            IN  IF e > 127 THEN Raise("OverflowError")
                ELSE IF e < -126
                THEN Ok(<<IF v.neg THEN 1 ELSE 0>> \o Repeat(0, 8)
                        \o TwosBits(v.num * Pow2(v.sh + 149), 23))
                ELSE Ok(<<IF v.neg THEN 1 ELSE 0>>
                        \o TwosBits(e + 127, 8)
                        \o TwosBits((v.num - Pow2(L - 1)) * Pow2(24 - L), 23))

unpack_single(bytes) ==
    LET neg == bytes[1] = 1
        exponent == BitsToNat(SubSeq(bytes, 2, 9))
        mantissa == BitsToNat(SubSeq(bytes, 10, 32))
    IN  IF exponent = 255
        THEN (IF mantissa = 0 THEN FInf(neg)
              ELSE [FNaN EXCEPT !.neg = neg, !.num = mantissa % Pow2(22)])
        ELSE IF exponent = 0 THEN FNormalize(neg, mantissa, -149)
        ELSE FNormalize(neg, Pow2(23) + mantissa, exponent - 150)

\* struct.pack(packing_format, value), as bits
struct_pack(letter, endianness, value) ==
    LET big == IF letter = "f" THEN pack_single(value)
               ELSE IF StructInRange(letter, value)
                    THEN Ok(TwosBits(value, 8 * StructSize(letter)))
                    ELSE Raise("struct.error")
    IN  IF big.err # "none" \/ endianness = "big" THEN big
        ELSE Ok(ReverseBytes(big.val))

\* struct.unpack(packing_format, bytes)[0]
struct_unpack(letter, endianness, bytes) ==
    LET big == IF endianness = "big" THEN bytes ELSE ReverseBytes(bytes)
    IN  IF Len(bytes) # 8 * StructSize(letter) THEN Raise("struct.error")
        ELSE IF letter = "f" THEN Ok(unpack_single(big))
        ELSE IF letter \in {"B", "H"} THEN Ok(BitsToNat(big))
        ELSE Ok(SignedFromBits(big))

(***************************************************************************)
(* str.encode("utf-8") and bytes.decode("utf-8").  A str is the sequence   *)
(* of its code points; the code points used are below 2048.                *)
(***************************************************************************)
RECURSIVE utf8_encode(_)
utf8_encode(string) ==
    IF Len(string) = 0 THEN <<>>
    ELSE (IF Head(string) < 128 THEN TwosBits(Head(string), 8)
          ELSE <<1, 1, 0>> \o TwosBits(Head(string) \div 64, 5)
               \o <<1, 0>> \o TwosBits(Head(string) % 64, 6))
         \o utf8_encode(Tail(string))

\* one- and two-byte sequences; lead bytes above 0xDF do not occur
RECURSIVE utf8_decode(_)
utf8_decode(bytes) ==
    IF Len(bytes) = 0 THEN Ok(<<>>)
    ELSE LET b1 == BitsToNat(SubSeq(bytes, 1, 8))
             b2 == IF Len(bytes) >= 16 THEN BitsToNat(SubSeq(bytes, 9, 16)) ELSE 0
         IN  IF b1 < 128
             THEN LET rest == utf8_decode(SubSeq(bytes, 9, Len(bytes)))
                  IN  IF rest.err # "none" THEN rest
                      ELSE Ok(<<b1>> \o rest.val)
             ELSE IF 194 <= b1 /\ b1 <= 223 /\ 128 <= b2 /\ b2 <= 191
             THEN LET rest == utf8_decode(SubSeq(bytes, 17, Len(bytes)))
                  IN  IF rest.err # "none" THEN rest
                      ELSE Ok(<<(b1 - 192) * 64 + (b2 - 128)>> \o rest.val)
             ELSE Raise("UnicodeDecodeError")

(***************************************************************************)
(* Types.  A type is a record: cat is "BitType", "PyType", "CType" or      *)
(* "DataClass"; a BitType has its base class, its num_bits, the struct     *)
(* packing_format_letter ("" when it is not struct-packed) and, for a      *)
(* Float, its num_exponent_bits; a DataClass has the types of its fields.  *)
(***************************************************************************)
TypeOf(cat, base, num_bits, letter, exp_bits, fields) ==
    [cat |-> cat, base |-> base, num_bits |-> num_bits, letter |-> letter,
     exp_bits |-> exp_bits, fields |-> fields]

UInt5 == TypeOf("BitType", "UInt", 5, "", 0, <<>>)

UInt8 == TypeOf("BitType", "UInt", 8, "B", 0, <<>>)

UInt16 == TypeOf("BitType", "UInt", 16, "H", 0, <<>>)

SInt4 == TypeOf("BitType", "SInt", 4, "", 0, <<>>)

SInt8 == TypeOf("BitType", "SInt", 8, "b", 0, <<>>)

SInt32 == TypeOf("BitType", "SInt", 32, "i", 0, <<>>)

BFloat16 == TypeOf("BitType", "Float", 16, "", 8, <<>>)

Float32 == TypeOf("BitType", "Float", 32, "f", 8, <<>>)

Buffer4 == TypeOf("BitType", "Buffer", 4, "", 0, <<>>)

Str8 == TypeOf("BitType", "String", 8, "", 0, <<>>)

BitTypes == {UInt5, UInt8, UInt16, SInt4, SInt8, SInt32, BFloat16, Float32,
             Buffer4, Str8}

\* SignedConfig.signed_int_format, left at its default
signed_int_format == "twos_complement"

\* StructPackedBitType.skip_struct_packing, SInt's override included
skip_struct_packing(T) ==
    T.base = "SInt" /\ signed_int_format # "twos_complement"

is_struct_packed(T) == T.letter # "" /\ ~skip_struct_packing(T)

\* bin(value): "0b..." or "-0b..."
py_bin(value) ==
    IF value < 0 THEN <<"-", "0", "b">> \o bin(-value)
    ELSE <<"0", "b">> \o bin(value)

(***************************************************************************)
(* The value setter of each bit-type: the bits the instance holds after    *)
(* `x.value = value` returns, or the error it raises.                      *)
(***************************************************************************)
\* BitType.bits setter
bits_set(T, bits) ==
    IF Len(bits) # T.num_bits THEN Raise("ValueError") ELSE Ok(bits)

\* self.bits = BitVector(str_bits)
bits_set_from01(T, str_bits) ==
    IF str_bits.err # "none" THEN str_bits
    ELSE LET bv == from01(str_bits.val)
         IN  IF bv.err # "none" THEN bv ELSE bits_set(T, bv.val)

value_set(T, endianness, value) ==
    IF is_struct_packed(T) THEN struct_pack(T.letter, endianness, value)
    ELSE CASE T.base = "UInt" ->
                from01(SubSeq(py_bin(value), 3, Len(py_bin(value))))
           [] T.base = "SInt" ->
                bits_set_from01(T, to_bitstring(value, TRUE, T.num_bits,
                                                signed_int_format))
           [] T.base = "Float" ->
                bits_set_from01(T, float_to_binstring(value, T.exp_bits,
                                        T.num_bits - 1 - T.exp_bits))
           [] T.base = "Buffer" -> Ok(value)
           [] T.base = "String" -> bits_set(T, utf8_encode(value))

(***************************************************************************)
(* The value getter of each bit-type.                                      *)
(***************************************************************************)
value_get(T, endianness, bits) ==
    IF is_struct_packed(T) THEN struct_unpack(T.letter, endianness, tobytes(bits))
    ELSE CASE T.base = "UInt" ->
                IF Len(bits) = 0 THEN Raise("ValueError")
                ELSE Ok(int2(to01(bits)))
           [] T.base = "SInt" -> to_pyint(to01(bits), TRUE, signed_int_format)
           [] T.base = "Float" ->
                Ok(float_value_get(bits, T.exp_bits, T.num_bits - 1 - T.exp_bits))
           [] T.base = "Buffer" -> Ok(bits)
           [] T.base = "String" -> utf8_decode(tobytes(bits))

(***************************************************************************)
(* BitType.__init__.  An instance is [type, endianness, val] with val its  *)
(* bits.  The result is the bits of the new instance or the error raised.  *)
(***************************************************************************)
Instance(T, endianness, bits) == [type |-> T, endianness |-> endianness, val |-> bits]

\* BitType.py_type
py_type(T) ==
    CASE T.base \in {"UInt", "SInt"} -> "int"
      [] T.base = "Float" -> "float"
      [] T.base = "Buffer" -> "BitVector"
      [] T.base = "String" -> "str"

\* T(value, endianness=...) with a value of T's py_type as the source: a
\* BitVector source (the py_type of Buffer) is taken as the bits and goes
\* through the bits setter, any other value through the value setter
init_from_value(T, endianness, value) ==
    IF py_type(T) = "BitVector" THEN bits_set(T, value)
    ELSE value_set(T, endianness, value)

\* T(bits=...), also T(source) with a BitVector source
init_from_bits(T, bits) == bits_set(T, bits)

\* T(source) with a BitType source of the same py_type: the value is read
\* from the source and the endianness is the source's
init_from_instance(T, source) ==
    LET value == value_get(source.type, source.endianness, source.val)
    IN  IF value.err # "none" THEN Raise("ValueError")
        ELSE value_set(T, source.endianness, value.val)

Endiannesses == {"big", "little"}

IntSamples ==
    ((-MaxSmallInt)..MaxSmallInt)
    \cup {-129, -128, 31, 32, 127, 128, 255, 256, 258, 382, 65535, 65536}

\* 3.1415927410125732421875, the single nearest to pi
Pi32 == FNormalize(FALSE, 13176795, -22)

FloatSamples ==
    {FZero(FALSE), FZero(TRUE), FInf(FALSE), FInf(TRUE), FNaN, Pi32}
    \cup {FNormalize(neg, n, sh) :
            neg \in BOOLEAN, n \in {1, 3}, sh \in (-MaxSampleShift)..MaxSampleShift}

BitSeqs(n) == [1..n -> {0, 1}]

BufferSamples == UNION {BitSeqs(n) : n \in 0..MaxBufferLen}

\* "", "A", "é", "AB"
StrSamples == {<<>>, <<65>>, <<233>>, <<65, 66>>}

\* the Python values handed to a constructor or to the value setter
PyValues(T) ==
    CASE py_type(T) = "int" -> IntSamples
      [] py_type(T) = "float" -> FloatSamples
      [] py_type(T) = "BitVector" -> BufferSamples
      [] py_type(T) = "str" -> StrSamples

\* the BitVectors handed to a constructor or to the bits setter
BitSources(T) ==
    BufferSamples
    \cup {Repeat(b, T.num_bits) : b \in {0, 1}}
    \cup {TwosBits(n, T.num_bits) : n \in 0..MaxSmallInt}

(***************************************************************************)
(* A typed bit-value as a state machine: bt is the instance and the last   *)
(* operation on it; live says whether the constructor returned.            *)
(***************************************************************************)
BtState(op, T, endianness, bits, err, live) ==
    [op |-> op, type |-> T, endianness |-> endianness, bits |-> bits,
     err |-> err, live |-> live]

Constructed(T, endianness, res) ==
    IF res.err = "none"
    THEN BtState("construct", T, endianness, res.val, "none", TRUE)
    ELSE BtState("construct", T, endianness, <<>>, res.err, FALSE)

Construct(T, endianness, value) ==
    /\ bt.op = "idle"
    /\ bt' = Constructed(T, endianness, init_from_value(T, endianness, value))
    /\ UNCHANGED <<intc, fltc, agg, bvec>>

ConstructFromBits(T, endianness, bits) ==
    /\ bt.op = "idle"
    /\ bt' = Constructed(T, endianness, init_from_bits(T, bits))
    /\ UNCHANGED <<intc, fltc, agg, bvec>>

\* y = T(x) for the live instance x
ConstructFromInstance(T) ==
    /\ bt.op # "idle" /\ bt.live
    /\ py_type(T) = py_type(bt.type)
    /\ bt' = Constructed(T, bt.endianness,
                init_from_instance(T, Instance(bt.type, bt.endianness, bt.bits)))
    /\ UNCHANGED <<intc, fltc, agg, bvec>>

\* x.value = value; a setter that raises leaves the instance as it was
SetValue(value) ==
    /\ bt.op # "idle" /\ bt.live
    /\ LET res == value_set(bt.type, bt.endianness, value)
       IN  bt' = IF res.err = "none"
                 THEN BtState("set_value", bt.type, bt.endianness, res.val, "none", TRUE)
                 ELSE BtState("set_value", bt.type, bt.endianness, bt.bits, res.err, TRUE)
    /\ UNCHANGED <<intc, fltc, agg, bvec>>

\* x.bits = bits
SetBits(bits) ==
    /\ bt.op # "idle" /\ bt.live
    /\ LET res == bits_set(bt.type, bits)
       IN  bt' = IF res.err = "none"
                 THEN BtState("set_bits", bt.type, bt.endianness, res.val, "none", TRUE)
                 ELSE BtState("set_bits", bt.type, bt.endianness, bt.bits, res.err, TRUE)
    /\ UNCHANGED <<intc, fltc, agg, bvec>>

\* BitType.__bytes__: bytes(self.bits), reversed when the endianness is little
bittype_bytes(endianness, bits) ==
    IF endianness = "big" THEN tobytes(bits) ELSE ReverseBytes(tobytes(bits))

\* bytes(x) for the live instance x; res is the bytes returned
Bytes ==
    /\ bt.op # "idle" /\ bt.live
    /\ bt' = [op |-> "bytes", type |-> bt.type, endianness |-> bt.endianness,
              bits |-> bt.bits, err |-> "none", live |-> TRUE,
              res |-> bittype_bytes(bt.endianness, bt.bits)]
    /\ UNCHANGED <<intc, fltc, agg, bvec>>

\* the instance goes out of scope
Discard ==
    /\ bt.op # "idle"
    /\ bt' = Idle
    /\ UNCHANGED <<intc, fltc, agg, bvec>>

InitBitType == intc = Idle /\ fltc = Idle /\ bt = Idle /\ agg = Idle /\ bvec = Idle

NextBitType ==
    \/ \E T \in BitTypes, e \in Endiannesses : \E v \in PyValues(T) :
          Construct(T, e, v)
    \/ \E T \in BitTypes, e \in Endiannesses : \E b \in BitSources(T) :
          ConstructFromBits(T, e, b)
    \/ \E T \in BitTypes : ConstructFromInstance(T)
    \/ bt.op # "idle" /\ \E v \in PyValues(bt.type) : SetValue(v)
    \/ bt.op # "idle" /\ \E b \in BitSources(bt.type) : SetBits(b)
    \/ Bytes
    \/ Discard

SpecBitType == InitBitType /\ [][NextBitType]_vars

(***************************************************************************)
(* The unit and aggregate types of the serializer, and their objects.  An  *)
(* object is [type, endianness, val]: val is the bits of a BitType         *)
(* instance, the value of a native Python object or of a ctypes scalar,    *)
(* and the sequence of field objects of a dataclass instance; endianness   *)
(* is "none" for all but BitType instances.                                *)
(***************************************************************************)
\* the native types with a ConversionInfo; num_bits is ConversionInfo.num_bits
PyInt == TypeOf("PyType", "int", 32, "", 0, <<>>)

PyFloat == TypeOf("PyType", "float", 32, "", 0, <<>>)

PyStr == TypeOf("PyType", "str", 8, "", 0, <<>>)

PyBool == TypeOf("PyType", "bool", 1, "", 0, <<>>)

\* ctypes scalars; num_bits is 8 * ctypes.sizeof
c_uint8 == TypeOf("CType", "c_uint8", 8, "", 0, <<>>)

c_uint16 == TypeOf("CType", "c_uint16", 16, "", 0, <<>>)

DataClass(fields) == TypeOf("DataClass", "dataclass", 0, "", 0, fields)

Obj(T, val) == [type |-> T, endianness |-> "none", val |-> val]

\* UnitType = Union[CType, BitType, PyType]
IsUnitType(T) == T.cat \in {"CType", "BitType", "PyType"}

(***************************************************************************)
(* conversions/pytypes.py and conversions/ctypes_.py                       *)
(***************************************************************************)
\* ConversionInfo.to_bits of the native types
pytype_to_bits(py_prim) ==
    CASE py_prim.type.base = "str" -> Ok(utf8_encode(py_prim.val))
      [] py_prim.type.base = "bool" -> Ok(<<IF py_prim.val THEN 1 ELSE 0>>)
      [] py_prim.type.base = "int" -> from_int(py_prim.val, 32)
      [] py_prim.type.base = "float" -> pack_single(py_prim.val)

\* bytes(ctype_obj) of an unsigned scalar on a little-endian host
ctype_bytes(ctype_obj) ==
    ReverseBytes(TwosBits(ctype_obj.val, ctype_obj.type.num_bits))

\* reverse_ctype_endianness on the bytes of a scalar
reverse_ctype_endianness(bytes) ==
    IF Len(bytes) \div 8 > 1 THEN ReverseBytes(bytes) ELSE bytes

\* reverse_endianness has its default, True
ctype_to_bits(ctype_obj) == Ok(reverse_ctype_endianness(ctype_bytes(ctype_obj)))

\* bits_obj.to_bytes() for a whole number of bytes, then from_buffer_copy
\* and reverse_ctype_endianness
bits_to_ctype(bits_obj, ctype_type) ==
    Ok(Obj(ctype_type, BitsToNat(ReverseBytes(reverse_ctype_endianness(bits_obj)))))

(***************************************************************************)
(* conversions/aggregate_types.py                                          *)
(***************************************************************************)
\* the sum of a sequence of counts, the first error winning
RECURSIVE SumCounts(_)
SumCounts(counts) ==
    IF Len(counts) = 0 THEN Ok(0)
    ELSE IF Head(counts).err # "none" THEN Head(counts)
    ELSE LET rest == SumCounts(Tail(counts))
         IN  IF rest.err # "none" THEN rest
             ELSE Ok(Head(counts).val + rest.val)

\* ConversionInfo.num_bits is an int, and calling it raises TypeError
RECURSIVE count_bits_in_unit_type(_)
count_bits_in_unit_type(unit_type) ==
    CASE unit_type.cat = "CType" -> Ok(unit_type.num_bits)
      [] unit_type.cat = "BitType" -> Ok(unit_type.num_bits)
      [] unit_type.cat = "PyType" -> Raise("TypeError")
      [] unit_type.cat = "DataClass" ->
            SumCounts([i \in 1..Len(unit_type.fields) |->
                          count_bits_in_unit_type(unit_type.fields[i])])

count_bits_in_aggregate_type(aggregate_type) ==
    IF IsUnitType(aggregate_type) THEN count_bits_in_unit_type(aggregate_type)
    ELSE SumCounts([i \in 1..Len(aggregate_type.fields) |->
                       count_bits_in_unit_type(aggregate_type.fields[i])])

to_bits_individual(unit) ==
    CASE unit.type.cat = "CType" -> ctype_to_bits(unit)
      [] unit.type.cat = "BitType" -> Ok(unit.val)
      [] unit.type.cat = "PyType" -> pytype_to_bits(unit)

\* trycast of a field value to the field's type: an instance is kept, a
\* native value under a BitType field goes through the constructor
trycast(obj, type_) ==
    IF obj.type = type_ THEN Ok(obj)
    ELSE LET bits == init_from_value(type_, "big", obj.val)
         IN  IF bits.err # "none" THEN bits
             ELSE Ok(Instance(type_, "big", bits.val))

\* BitVector().join(iterable): the to01 strings joined, then BitVector(str)
RECURSIVE JoinStrings(_)
JoinStrings(strings) ==
    IF Len(strings) = 0 THEN <<>>
    ELSE Head(strings) \o JoinStrings(Tail(strings))

join(iterable) ==
    from01(JoinStrings([i \in 1..Len(iterable) |-> to01(iterable[i])]))

\* the results of a sequence of calls: the first error, or all the values
FirstError(results) ==
    IF \E i \in 1..Len(results) : results[i].err # "none"
    THEN results[CHOOSE i \in 1..Len(results) :
                    /\ results[i].err # "none"
                    /\ \A j \in 1..(i - 1) : results[j].err = "none"]
    ELSE Ok([i \in 1..Len(results) |-> results[i].val])

\* the concatenation of a sequence of sequences
RECURSIVE Concat(_)
Concat(seqs) == IF Len(seqs) = 0 THEN <<>> ELSE Head(seqs) \o Concat(Tail(seqs))

RECURSIVE to_bits_aggregate(_)
to_bits_aggregate(convertible_object) ==
    IF /\ IsUnitType(convertible_object.type)
       /\ ~(convertible_object.type.base = "str" /\ Len(convertible_object.val) > 1)
    THEN to_bits_individual(convertible_object)
    ELSE IF convertible_object.type.cat = "DataClass"
    THEN LET field_types == convertible_object.type.fields
             field_values ==
                 FirstError([i \in 1..Len(field_types) |->
                               trycast(convertible_object.val[i], field_types[i])])
         IN  IF field_values.err # "none" THEN field_values
             ELSE LET field_value_bits ==
                          FirstError([i \in 1..Len(field_types) |->
                                        to_bits_aggregate(field_values.val[i])])
                  IN  IF field_value_bits.err # "none" THEN field_value_bits
                      ELSE join(field_value_bits.val)
    ELSE \* Iterable: a str of several characters, unit by unit
         LET unit_bits ==
                 FirstError([i \in 1..Len(convertible_object.val) |->
                               to_bits_aggregate(Obj(PyStr, <<convertible_object.val[i]>>))])
         IN  IF unit_bits.err # "none" THEN unit_bits
             ELSE Ok(JoinStrings(unit_bits.val))

\* the size check raises Exception, but formatting its message reads
\* unitbits.num_bits, which a BitVector has not: AttributeError
SizeMismatch == Raise("AttributeError")

from_bits_individual(unitbits, unittype) ==
    LET size_in_bits == count_bits_in_unit_type(unittype)
    IN  IF size_in_bits.err # "none" THEN size_in_bits
        ELSE IF Len(unitbits) # size_in_bits.val THEN SizeMismatch
        ELSE CASE unittype.cat = "CType" -> bits_to_ctype(unitbits, unittype)
               [] unittype.cat = "BitType" ->
                     LET bits == init_from_bits(unittype, unitbits)
                     IN  IF bits.err # "none" THEN bits
                         ELSE Ok(Instance(unittype, "big", bits.val))

\* the for loop over the fields: the fields read, or the first error
RECURSIVE from_bits_aggregate(_, _)
RECURSIVE read_fields(_, _)
read_fields(unitbits, field_types) ==
    IF Len(field_types) = 0 THEN Ok(<<>>)
    ELSE LET field_size_in_bits == count_bits_in_unit_type(Head(field_types))
         IN  IF field_size_in_bits.err # "none" THEN field_size_in_bits
             ELSE LET n == Min(field_size_in_bits.val, Len(unitbits))
                      field_value == from_bits_aggregate(SubSeq(unitbits, 1, n),
                                                         Head(field_types))
                  IN  IF field_value.err # "none" THEN field_value
                      ELSE LET rest == read_fields(
                                           SubSeq(unitbits, n + 1, Len(unitbits)),
                                           Tail(field_types))
                           IN  IF rest.err # "none" THEN rest
                               ELSE Ok(<<field_value.val>> \o rest.val)

from_bits_aggregate(unitbits, aggregate_type) ==
    IF IsUnitType(aggregate_type)
    THEN from_bits_individual(unitbits, aggregate_type)
    ELSE LET size_in_bits == count_bits_in_aggregate_type(aggregate_type)
         IN  IF size_in_bits.err # "none" THEN size_in_bits
             ELSE IF Len(unitbits) # size_in_bits.val THEN SizeMismatch
             ELSE LET fields == read_fields(unitbits, aggregate_type.fields)
                  IN  IF fields.err # "none" THEN fields
                      ELSE Ok(Obj(aggregate_type, fields.val))

(***************************************************************************)
(* The types and objects the serializer is run on.                         *)
(***************************************************************************)
\* dataclasses as in the tests: native fields, ctypes fields, bit-type
\* fields (BitTypeAggregate1 is SInt32, Float32, Buffer4), bit-type fields
\* that are not struct-packed, and a dataclass of dataclasses
PyTypeAggregate1 == DataClass(<<PyInt, PyFloat, PyStr>>)

CTypeAggregate1 == DataClass(<<c_uint16, c_uint8>>)

BitTypeAggregate1 == DataClass(<<SInt32, Float32, Buffer4>>)

SubByteAggregate == DataClass(<<UInt5, Buffer4, Str8>>)

MixedAggregate == DataClass(<<CTypeAggregate1, SubByteAggregate>>)

PyTypes == {PyInt, PyFloat, PyStr, PyBool}

CTypes == {c_uint8, c_uint16}

DataClasses == {PyTypeAggregate1, CTypeAggregate1, BitTypeAggregate1,
                SubByteAggregate, MixedAggregate}

AggregateTypes == PyTypes \cup CTypes \cup BitTypes \cup DataClasses

\* the instances T(value, endianness=e) whose constructor returns
InstancesOf(T, values, endiannesses) ==
    {Instance(T, p[1], init_from_value(T, p[1], p[2]).val) :
        p \in {q \in endiannesses \X values :
                  init_from_value(T, q[1], q[2]).err = "none"}}

\* the values of a native type
NativeValues(T) ==
    CASE T.base = "int" -> IntSamples
      [] T.base = "float" -> FloatSamples
      [] T.base = "str" -> StrSamples
      [] T.base = "bool" -> BOOLEAN

\* the values of an unsigned ctypes scalar
CValues(T) == {k \in IntSamples : 0 <= k /\ k < Pow2(T.num_bits)}

\* the values a field of a dataclass instance is given
FieldValues(T) ==
    CASE T.base \in {"UInt", "SInt", "int", "c_uint8", "c_uint16"} -> {0, 3, 382}
      [] T.base \in {"Float", "float"} -> {Pi32, FZero(FALSE)}
      [] T.base = "Buffer" -> {<<0, 1, 0, 0>>, <<1, 1>>}
      [] T.base \in {"String", "str"} -> {<<65>>}
      [] T.base = "bool" -> BOOLEAN

\* the objects a field of type T holds: instances of T or, when raw, native
\* ints under the integer bit-types, left for trycast
RECURSIVE FieldObjects(_, _)
RECURSIVE FieldTuples(_, _)
FieldTuples(field_types, raw) ==
    IF Len(field_types) = 0 THEN {<<>>}
    ELSE {<<h>> \o t : h \in FieldObjects(Head(field_types), raw),
                       t \in FieldTuples(Tail(field_types), raw)}

FieldObjects(T, raw) ==
    CASE T.cat = "DataClass" -> {Obj(T, fs) : fs \in FieldTuples(T.fields, raw)}
      [] T.cat = "PyType" -> {Obj(T, v) : v \in FieldValues(T)}
      [] T.cat = "CType" ->
            {Obj(T, v) : v \in {k \in FieldValues(T) : k < Pow2(T.num_bits)}}
      [] T.cat = "BitType" ->
            IF raw /\ T.base \in {"UInt", "SInt"}
            THEN {Obj(PyInt, v) : v \in FieldValues(T)}
            ELSE InstancesOf(T, FieldValues(T), {"big"})

\* the objects of type T the serializer is given
ObjectsOf(T, raw) ==
    CASE T.cat = "PyType" -> {Obj(T, v) : v \in NativeValues(T)}
      [] T.cat = "CType" -> {Obj(T, v) : v \in CValues(T)}
      [] T.cat = "BitType" -> InstancesOf(T, PyValues(T), Endiannesses)
      [] T.cat = "DataClass" -> FieldObjects(T, raw)

\* a BitVector cut or zero-extended to n bits
Resized(bits, n) ==
    IF n <= Len(bits) THEN SubSeq(bits, 1, n)
    ELSE bits \o Repeat(0, n - Len(bits))

(***************************************************************************)
(* The serializer as a state machine: agg is the last call made.           *)
(***************************************************************************)
ToBitsAggregate(obj) ==
    /\ agg.op = "idle"
    /\ agg' = [op |-> "to_bits", obj |-> obj, res |-> to_bits_aggregate(obj)]
    /\ UNCHANGED <<intc, fltc, bt, bvec>>

\* from_bits_aggregate on the bits just produced, delta bits longer
\* (shorter when delta is negative), into the type T
FromBitsAggregate(T, delta) ==
    /\ agg.op = "to_bits"
    /\ agg.res.err = "none"
    /\ Len(agg.res.val) + delta >= 0
    /\ LET unitbits == Resized(agg.res.val, Len(agg.res.val) + delta)
       IN  agg' = [op |-> "from_bits", obj |-> agg.obj, delta |-> delta,
                   bits |-> unitbits, type |-> T,
                   res |-> from_bits_aggregate(unitbits, T)]
    /\ UNCHANGED <<intc, fltc, bt, bvec>>

(***************************************************************************)
(* The byte-oriented functions of conversions/aggregate_types.py.          *)
(***************************************************************************)
\* pytype_to_bytes
pytype_to_bytes(py_prim, reverse_endianness) ==
    LET bits == pytype_to_bits(py_prim)
    IN  IF bits.err # "none" THEN bits
        ELSE LET retval == to_bytes(bits.val, FALSE)
             IN  IF reverse_endianness THEN Ok(ReverseBytes(retval)) ELSE Ok(retval)

\* ctype_to_bytes
ctype_to_bytes(ctype_obj, reverse_endianness) ==
    IF reverse_endianness THEN Ok(reverse_ctype_endianness(ctype_bytes(ctype_obj)))
    ELSE Ok(ctype_bytes(ctype_obj))

\* bytes_to_ctype: from_buffer_copy on a little-endian host, then
\* reverse_ctype_endianness
bytes_to_ctype(bytes_obj, ctype_type, reverse_endianness) ==
    IF reverse_endianness
    THEN Ok(Obj(ctype_type, BitsToNat(ReverseBytes(reverse_ctype_endianness(bytes_obj)))))
    ELSE Ok(Obj(ctype_type, BitsToNat(ReverseBytes(bytes_obj))))

\* a BitType has no to_bytes method: AttributeError
to_bytes_individual(unit, reverse_endianness) ==
    CASE unit.type.cat = "CType" -> ctype_to_bytes(unit, reverse_endianness)
      [] unit.type.cat = "BitType" -> Raise("AttributeError")
      [] unit.type.cat = "PyType" -> pytype_to_bytes(unit, reverse_endianness)

\* the instance a BitType constructor returns once the bits are set
constructed_instance(field_type, endianness, bits) ==
    IF bits.err # "none" THEN bits
    ELSE Ok(Instance(field_type, endianness, bits.val))

\* field_type(field_value): a native value is converted by its own type, a
\* ctypes scalar does not accept a ctypes scalar, a BitType is constructed
\* from the instance or the value, and a dataclass takes the value as its
\* first field
construct_field(field_type, field_value) ==
    CASE field_type.cat = "PyType" -> Ok(Obj(field_type, field_value.val))
      [] field_type.cat = "CType" ->
            IF field_value.type.cat = "CType" THEN Raise("TypeError")
            ELSE Ok(Obj(field_type, field_value.val % Pow2(field_type.num_bits)))
      [] field_type.cat = "BitType" ->
            IF field_value.type.cat = "BitType"
            THEN constructed_instance(field_type, field_value.endianness,
                                      init_from_instance(field_type, field_value))
            ELSE constructed_instance(field_type, "big",
                                      init_from_value(field_type, "big",
                                                      field_value.val))
      [] field_type.cat = "DataClass" ->
            IF Len(field_type.fields) = 1 THEN Ok(Obj(field_type, <<field_value>>))
            ELSE Raise("TypeError")

\* try: field_value = field_type(field_value); except TypeError: pass
except_type_error(first, second) ==
    IF second.err = "TypeError" THEN first ELSE second

\* the second conversion of a field, made when the first one returned
second_conversion(field_type, first) ==
    IF first.err # "none" THEN first
    ELSE except_type_error(first, construct_field(field_type, first.val))

\* the two conversions of a field; a TypeError of the second is passed over
field_value_of(field_type, field_value) ==
    second_conversion(field_type, construct_field(field_type, field_value))

\* bytes(ret_bytes) once every field has been serialized
extended_bytes(field_value_bytes) ==
    IF field_value_bytes.err # "none" THEN field_value_bytes
    ELSE Ok(Concat(field_value_bytes.val))

\* the for loop over the fields converts a field and then serializes it;
\* the first error ends it
RECURSIVE to_bytes_aggregate(_, _)
field_value_bytes(field_value, reverse_endianness) ==
    IF field_value.err # "none" THEN field_value
    ELSE to_bytes_aggregate(field_value.val, reverse_endianness)

to_bytes_aggregate(units, reverse_endianness) ==
    IF IsUnitType(units.type) THEN to_bytes_individual(units, reverse_endianness)
    ELSE extended_bytes(FirstError([i \in 1..Len(units.type.fields) |->
             field_value_bytes(field_value_of(units.type.fields[i], units.val[i]),
                               reverse_endianness)]))

\* bytes_to_bittype takes no reverse_endianness argument: TypeError
from_bytes_individual(unitbytes, unittype, reverse_endianness) ==
    LET size_in_bits == count_bits_in_unit_type(unittype)
    IN  IF size_in_bits.err # "none" THEN size_in_bits
        ELSE IF Len(unitbytes) # size_in_bits.val THEN Raise("Exception")
        ELSE CASE unittype.cat = "CType" ->
                     bytes_to_ctype(unitbytes, unittype, reverse_endianness)
               [] unittype.cat = "BitType" -> Raise("TypeError")

\* aggregate_type(*values): the dataclass constructor
construct_dataclass(aggregate_type, values) ==
    IF Len(values) = Len(aggregate_type.fields) THEN Ok(Obj(aggregate_type, values))
    ELSE Raise("TypeError")

\* bytes_obj[i:endindex] for i in range(0, len(bytes_obj), size_in_bits):
\* the step counts bytes although it is a number of bits
RECURSIVE segments(_, _)
segments(bytes_obj, size_in_bits) ==
    IF Len(bytes_obj) = 0 THEN <<>>
    ELSE IF Len(bytes_obj) <= 8 * size_in_bits THEN <<bytes_obj>>
    ELSE <<SubSeq(bytes_obj, 1, 8 * size_in_bits)>>
         \o segments(SubSeq(bytes_obj, 8 * size_in_bits + 1, Len(bytes_obj)),
                     size_in_bits)

\* the dataclasses are annotated with types, not strings, so the loop over
\* the fields reads field_type before it is bound: UnboundLocalError
RECURSIVE from_bytes_aggregate(_, _, _, _)
from_bytes_aggregate(bytes_obj, aggregate_type, is_array, reverse_endianness) ==
    LET obj == IF reverse_endianness THEN ReverseBytes(bytes_obj) ELSE bytes_obj
    IN  IF IsUnitType(aggregate_type)
        THEN from_bytes_individual(obj, aggregate_type, reverse_endianness)
        ELSE LET size_in_bits == count_bits_in_unit_type(aggregate_type)
             IN  IF size_in_bits.err # "none" THEN size_in_bits
                 ELSE IF ~is_array
                 THEN IF Len(obj) # size_in_bits.val THEN Raise("Exception")
                      ELSE IF Len(aggregate_type.fields) > 0
                      THEN Raise("UnboundLocalError")
                      ELSE construct_dataclass(aggregate_type, <<>>)
                 ELSE LET segs == segments(obj, size_in_bits.val)
                          arr_entry_list ==
                              FirstError([i \in 1..Len(segs) |->
                                  from_bytes_aggregate(segs[i], aggregate_type,
                                                       FALSE, reverse_endianness)])
                      IN  IF arr_entry_list.err # "none" THEN arr_entry_list
                          ELSE construct_dataclass(aggregate_type, arr_entry_list.val)

\* n copies of a bytes object, one after the other
RECURSIVE Copies(_, _)
Copies(bytes, n) == IF n = 0 THEN <<>> ELSE bytes \o Copies(bytes, n - 1)

\* a bytes object cut or zero-extended by delta bytes
ResizedBytes(bytes, delta) ==
    IF Len(bytes) + 8 * delta < 0 THEN <<>>
    ELSE Resized(bytes, Len(bytes) + 8 * delta)

ToBytesAggregate(obj, reverse_endianness) ==
    /\ agg.op = "idle"
    /\ agg' = [op |-> "to_bytes", obj |-> obj,
               reverse_endianness |-> reverse_endianness,
               res |-> to_bytes_aggregate(obj, reverse_endianness)]
    /\ UNCHANGED <<intc, fltc, bt, bvec>>

\* from_bytes_aggregate into the type T, with the reverse_endianness the
\* bytes were made with, on `copies` copies of the bytes just produced,
\* delta bytes longer (shorter when delta is negative)
FromBytesAggregate(T, copies, delta, is_array) ==
    /\ agg.op = "to_bytes"
    /\ agg.res.err = "none"
    /\ LET bytes_obj == ResizedBytes(Copies(agg.res.val, copies), delta)
       IN  agg' = [op |-> "from_bytes", obj |-> agg.obj,
                   copies |-> copies, delta |-> delta, data |-> bytes_obj,
                   type |-> T, is_array |-> is_array,
                   reverse_endianness |-> agg.reverse_endianness,
                   res |-> from_bytes_aggregate(bytes_obj, T, is_array,
                                                agg.reverse_endianness)]
    /\ UNCHANGED <<intc, fltc, bt, bvec>>

AggReturn ==
    /\ agg.op # "idle"
    /\ agg' = Idle
    /\ UNCHANGED <<intc, fltc, bt, bvec>>

InitAgg == intc = Idle /\ fltc = Idle /\ bt = Idle /\ agg = Idle /\ bvec = Idle

NextAgg ==
    \/ /\ agg.op = "idle"
       /\ \E T \in AggregateTypes, raw \in BOOLEAN : \E obj \in ObjectsOf(T, raw) :
             ToBitsAggregate(obj)
    \/ /\ agg.op = "to_bits"
       /\ \E T \in AggregateTypes, delta \in (-MaxDelta)..MaxDelta :
             FromBitsAggregate(T, delta)
    \/ /\ agg.op = "idle"
       /\ \E T \in AggregateTypes, raw \in BOOLEAN, r \in BOOLEAN :
             \E obj \in ObjectsOf(T, raw) : ToBytesAggregate(obj, r)
    \/ /\ agg.op = "to_bytes"
       /\ \E T \in AggregateTypes, copies \in 1..MaxCopies,
             delta \in (-MaxDelta)..MaxDelta, is_array \in BOOLEAN :
             /\ is_array \/ copies = 1
             /\ FromBytesAggregate(T, copies, delta, is_array)
    \/ AggReturn

SpecAgg == InitAgg /\ [][NextAgg]_vars

(***************************************************************************)
(* Properties of the numeric codec.                                        *)
(***************************************************************************)
\* value fits the signed format at width n
FitsSigned(v, n, fmt) ==
    IF fmt = "twos_complement"
    THEN -Pow2(n - 1) <= v /\ v <= Pow2(n - 1) - 1
    ELSE abs(v) <= Pow2(n - 1) - 1

\* C5: a signed Int.to_bitstring call succeeds exactly when the value fits
\* the format at the requested width (two's complement: -2^(n-1) .. 2^(n-1)-1,
\* sign-magnitude and one's complement: |value| <= 2^(n-1)-1) and raises the
\* range error (ValueError) otherwise.
C5_RangeCheck ==
    (intc.op = "to_bitstring" /\ intc.signed) =>
        /\ (intc.res.err = "none")
              <=> FitsSigned(intc.value, intc.bit_length, intc.format)
        /\ intc.res.err \in {"none", "ValueError"}

\* the negative extreme -2^(n-1) was refused under a symmetric format
C5_Witness ==
    /\ intc.op = "to_bitstring" /\ intc.signed
    /\ intc.format = "signed_magnitude"
    /\ intc.bit_length = 8 /\ intc.value = -128
    /\ intc.res.err = "ValueError"

\* C6: decoding what to_bitstring returned, with the same signedness and
\* format, gives back the encoded value.
C6_RoundTrip ==
    intc.op = "to_pyint" => intc.res = Ok(intc.value)

\* a negative one's-complement value has been encoded and decoded
C6_Witness ==
    /\ intc.op = "to_pyint" /\ intc.signed
    /\ intc.format = "ones_complement"
    /\ intc.value < 0 /\ intc.bit_length > 2
    /\ intc.res.err = "none"

\* value is representable at width n
BigFits(v, n, signed, fmt) ==
    IF ~signed THEN ~v.neg /\ v.exp < n
    ELSE IF fmt = "twos_complement"
         THEN IF v.neg THEN v.exp < n - 1 \/ (v.exp = n - 1 /\ v.off = 0)
              ELSE v.exp < n - 1
    ELSE v.exp < n - 1

SmallestWidth(v, signed, fmt) ==
    CHOOSE n \in 1..(MaxBigExp + 4) :
        /\ BigFits(v, n, signed, fmt)
        /\ \A m \in 1..(n - 1) : ~BigFits(v, m, signed, fmt)

\* C7: min_bit_length and twos_complement_bit_length return the smallest
\* width n >= 1 at which the value is representable, for every integer.
C7_SmallestWidth ==
    intc.op \in {"min_bit_length", "twos_complement_bit_length"} =>
        intc.res = SmallestWidth(intc.value, intc.signed, intc.format)

\* C8: a string returned by to_bitstring has exactly bit_length characters,
\* each "0" or "1".
C8_ExactWidth ==
    (intc.op = "to_bitstring" /\ intc.res.err = "none") =>
        /\ Len(intc.res.val) = intc.bit_length
        /\ \A i \in 1..Len(intc.res.val) : intc.res.val[i] \in {"0", "1"}

(***************************************************************************)
(* Properties of the float codec.                                          *)
(***************************************************************************)
\* number of binary digits of n >= 1
BitLen(n) == FloorLog2(n) + 1

\* v is zero, an infinity, or a normal number of the format: at most
\* m + 1 significant bits and a biased exponent in 1 .. 2^e - 2
Representable(v, e, m) ==
    \/ v.kind \in {"zero", "inf"}
    \/ /\ v.kind = "fin"
       /\ BitLen(v.num) <= m + 1
       /\ LET biased == v.sh + BitLen(v.num) - 1 + get_exponent_bias(e)
          IN  1 <= biased /\ biased <= Pow2(e) - 2

\* C9: assigning a value the format represents exactly (0.0 and the
\* infinities included) succeeds, and reading `value` afterwards returns it.
C9_DecodeInvertsEncode ==
    /\ (fltc.op = "assign"
          /\ Representable(fltc.value, fltc.num_exponent_bits, fltc.num_mantissa_bits))
       => fltc.res.err = "none"
    /\ (fltc.op = "read"
          /\ Representable(fltc.value, fltc.num_exponent_bits, fltc.num_mantissa_bits))
       => FloatEq(fltc.res.val, fltc.value)

\* C10: to_binstring returns, for every float, a string of exactly
\* 1 + E + M characters, each "0" or "1".
C10_ExactLayout ==
    fltc.op = "to_binstring" =>
        /\ fltc.res.err = "none"
        /\ Len(fltc.res.val) = 1 + fltc.num_exponent_bits + fltc.num_mantissa_bits
        /\ \A i \in 1..Len(fltc.res.val) : fltc.res.val[i] \in {"0", "1"}

(***************************************************************************)
(* Properties of the typed bit-values and of the serializer.               *)
(***************************************************************************)
\* equality of floats with NaN counted as equal to NaN
FloatSame(a, b) == (a.kind = "nan" /\ b.kind = "nan") \/ FloatEq(a, b)

\* a == b for two unit objects: native values and ctypes scalars by their
\* value, bit-type instances by BitType.__eq__, which compares the values
UnitEq(a, b) ==
    /\ a.type = b.type
    /\ CASE a.type.cat = "PyType" ->
              IF a.type.base = "float" THEN FloatSame(a.val, b.val)
              ELSE a.val = b.val
         [] a.type.cat = "CType" -> a.val = b.val
         [] a.type.cat = "BitType" ->
              LET va == value_get(a.type, a.endianness, a.val)
                  vb == value_get(b.type, b.endianness, b.val)
              IN  /\ va.err = "none"
                  /\ vb.err = "none"
                  /\ IF a.type.base = "Float" THEN FloatSame(va.val, vb.val)
                     ELSE va.val = vb.val

\* the declared width of a type: num_bits of a unit type, the recursive sum
\* of the fields' widths for a dataclass
RECURSIVE DeclaredWidth(_)
RECURSIVE DeclaredWidths(_)
DeclaredWidths(types) ==
    IF Len(types) = 0 THEN 0
    ELSE DeclaredWidth(Head(types)) + DeclaredWidths(Tail(types))

DeclaredWidth(T) ==
    IF T.cat = "DataClass" THEN DeclaredWidths(T.fields) ELSE T.num_bits

\* C1: for a unit object v of type T (a one-character str for str),
\* from_bits_aggregate(to_bits_aggregate(v), T) returns a value equal to v.
C1_RoundTrip ==
    (/\ agg.op = "from_bits"
     /\ IsUnitType(agg.obj.type)
     /\ ~(agg.obj.type.base = "str" /\ Len(agg.obj.val) # 1)
     /\ agg.type = agg.obj.type
     /\ agg.delta = 0)
    => /\ agg.res.err = "none"
       /\ UnitEq(agg.res.val, agg.obj)

\* C2: after a construction and after every assignment to value that
\* returns without raising, the instance holds exactly num_bits bits.
C2_WidthInvariant ==
    (bt.op \in {"construct", "set_value"} /\ bt.err = "none")
    => Len(bt.bits) = bt.type.num_bits

\* the serialization of each field of a dataclass instance
FieldBits(obj) ==
    [i \in 1..Len(obj.val) |->
        LET field == trycast(obj.val[i], obj.type.fields[i])
        IN  IF field.err # "none" THEN field ELSE to_bits_aggregate(field.val)]


\* C3: to_bits_aggregate of a dataclass instance whose fields serialize
\* returns the concatenation of the fields' serializations in field order,
\* and its length is the sum of the fields' declared widths.
C3_RecordConcatenation ==
    (/\ agg.op = "to_bits"
     /\ agg.obj.type.cat = "DataClass"
     /\ \A i \in 1..Len(agg.obj.val) : FieldBits(agg.obj)[i].err = "none")
    => /\ agg.res.err = "none"
       /\ agg.res.val = Concat([i \in 1..Len(agg.obj.val) |-> FieldBits(agg.obj)[i].val])
       /\ Len(agg.res.val) = DeclaredWidth(agg.obj.type)

\* C4: from_bits_aggregate(bits, T) with len(bits) different from the
\* declared width of T raises the size-mismatch error, the Exception of
\* from_bits_individual and from_bits_aggregate.
C4_SizeMismatchError ==
    (agg.op = "from_bits" /\ Len(agg.bits) # DeclaredWidth(agg.type))
    => agg.res.err = "Exception"

\* C11: after v is assigned to the value of a big-endian Float32, the bits
\* stored by the struct-packed path are the digits Float.to_binstring gives
\* for the value at 8 exponent and 23 mantissa bits.
C11_StructMatchesManual ==
    (/\ bt.op = "set_value"
     /\ bt.err = "none"
     /\ bt.type = Float32
     /\ bt.endianness = "big")
    => float_to_binstring(unpack_single(bt.bits), 8, 23) = Ok(to01(bt.bits))

\* the bytes of T(v, endianness="big") for the value v that the instance x holds
BigEndianBytesOf(x) ==
    LET v == value_get(x.type, x.endianness, x.bits)
        big == init_from_value(x.type, "big", v.val)
    IN  IF v.err # "none" THEN v
        ELSE IF big.err # "none" THEN big
        ELSE Ok(bittype_bytes("big", big.val))

\* C12: bytes(x) of a little-endian typed bit-value x is the byte-wise
\* reversal of bytes() of the big-endian instance of the same type and value.
C12_LittleIsReversedBig ==
    (/\ bt.op = "bytes"
     /\ bt.endianness = "little"
     /\ BigEndianBytesOf(bt).err = "none")
    => bt.res = ReverseBytes(BigEndianBytesOf(bt).val)

(***************************************************************************)
(* BitVector methods, and the BitVector as a state machine: bvec is the last *)
(* method call made.  A bytes object is the sequence of the bits of its    *)
(* bytes, most significant bit of each byte first.                         *)
(***************************************************************************)
Vectors == UNION {BitSeqs(n) : n \in 0..MaxVectorLen}

Sizes == 0..(MaxVectorLen + 1)

ToInt(b, endianness, signed) ==
    /\ bvec.op = "idle"
    /\ bvec' = [op |-> "to_int", self |-> b, endianness |-> endianness,
              signed |-> signed, res |-> Ok(to_int(b, endianness, signed))]
    /\ UNCHANGED <<intc, fltc, bt, agg>>

\* BitVector.from_int(integer, size), or BitVector.from_int(integer) when
\* no size is given
FromInt(integer, given, size) ==
    /\ bvec.op = "idle"
    /\ bvec' = [op |-> "from_int", integer |-> integer, given |-> given,
              size |-> IF given THEN size ELSE 0,
              res |-> IF given THEN from_int(integer, size)
                      ELSE from_int_default(integer)]
    /\ UNCHANGED <<intc, fltc, bt, agg>>

\* b.to_int(signed=True) on the vector b that from_int returned
ToIntBack ==
    /\ bvec.op = "from_int"
    /\ bvec.res.err = "none"
    /\ bvec' = [op |-> "to_int_back", integer |-> bvec.integer, given |-> bvec.given,
              size |-> bvec.size, self |-> bvec.res.val,
              res |-> Ok(to_int(bvec.res.val, "big", TRUE))]
    /\ UNCHANGED <<intc, fltc, bt, agg>>

ToBytes(b, reverse_endianness) ==
    /\ bvec.op = "idle"
    /\ bvec' = [op |-> "to_bytes", self |-> b,
              reverse_endianness |-> reverse_endianness,
              res |-> Ok(to_bytes(b, reverse_endianness))]
    /\ UNCHANGED <<intc, fltc, bt, agg>>

\* bytes(b)
BuiltinBytes(b) ==
    /\ bvec.op = "idle"
    /\ bvec' = [op |-> "bytes", self |-> b, res |-> Ok(tobytes(b))]
    /\ UNCHANGED <<intc, fltc, bt, agg>>

BvReturn ==
    /\ bvec.op # "idle"
    /\ bvec' = Idle
    /\ UNCHANGED <<intc, fltc, bt, agg>>

InitBitVector == intc = Idle /\ fltc = Idle /\ bt = Idle /\ agg = Idle /\ bvec = Idle

NextBitVector ==
    \/ \E b \in Vectors, e \in Endiannesses, signed \in BOOLEAN : ToInt(b, e, signed)
    \/ \E v \in IntSamples, given \in BOOLEAN, size \in Sizes : FromInt(v, given, size)
    \/ ToIntBack
    \/ \E b \in Vectors, r \in BOOLEAN : ToBytes(b, r)
    \/ \E b \in Vectors : BuiltinBytes(b)
    \/ BvReturn

SpecBitVector == InitBitVector /\ [][NextBitVector]_vars

(***************************************************************************)
(* Claims about BitVector.                                                 *)
(***************************************************************************)
\* C13: for a vector of at least one bit, to_int with endianness "big"
\* returns the unsigned value of the bits when signed is False, and that
\* value minus 2^n when signed is True and the first bit is 1.
C13_ToIntValue ==
    (/\ bvec.op = "to_int"
     /\ bvec.endianness = "big"
     /\ Len(bvec.self) >= 1)
    => bvec.res.val = IF bvec.signed /\ bvec.self[1] = 1
                    THEN BitsToNat(bvec.self) - Pow2(Len(bvec.self))
                    ELSE BitsToNat(bvec.self)

\* the integer is within the two's-complement range of size bits
FitsTwos(integer, size) ==
    size >= 1 /\ -Pow2(size - 1) <= integer /\ integer < Pow2(size - 1)

\* C14: a vector that from_int returned has exactly `size` bits (the minimum
\* two's-complement length when no size is given), and its to_int with
\* signed=True is the integer it was made from.
C14_FromIntInverse ==
    (bvec.op = "to_int_back")
    => /\ Len(bvec.self) = (IF bvec.given THEN bvec.size
                            ELSE CHOOSE n \in 1..(MaxVectorLen + 10) :
                                    /\ FitsTwos(bvec.integer, n)
                                    /\ \A k \in 1..(n - 1) : ~FitsTwos(bvec.integer, k))
       /\ bvec.res.val = bvec.integer

\* C15: to_bytes() of a vector of n bits returns ceil(n / 8) bytes that hold
\* the bits in order, most significant bit of each byte first, with zeros in
\* the unused low-order positions of the last byte.
C15_ToBytesLayout ==
    (bvec.op = "to_bytes" /\ ~bvec.reverse_endianness)
    => bvec.res.val =
          [i \in 1..(8 * ((Len(bvec.self) + 7) \div 8)) |->
              IF i <= Len(bvec.self) THEN bvec.self[i] ELSE 0]

(***************************************************************************)
(* Claims about the byte-oriented functions.                               *)
(***************************************************************************)
\* every unit field of the type is a whole number of bytes wide
RECURSIVE WholeBytes(_)
WholeBytes(T) ==
    IF T.cat = "DataClass" THEN \A i \in 1..Len(T.fields) : WholeBytes(T.fields[i])
    ELSE T.num_bits % 8 = 0

\* C16: for an object whose unit fields are all a whole number of bytes
\* wide, to_bytes_aggregate returns bytes(to_bits_aggregate) of the object;
\* and from_bytes_aggregate(data, T), for data of T's size, returns without
\* raising what from_bits_aggregate(BitVector(data), T) returns.
C16_BytesMatchBits ==
    /\ (/\ agg.op = "to_bytes"
        /\ ~agg.reverse_endianness
        /\ WholeBytes(agg.obj.type)
        /\ to_bits_aggregate(agg.obj).err = "none")
       => agg.res = Ok(tobytes(to_bits_aggregate(agg.obj).val))
    /\ (/\ agg.op = "from_bytes"
        /\ ~agg.reverse_endianness
        /\ ~agg.is_array
        /\ WholeBytes(agg.type)
        /\ Len(agg.data) = DeclaredWidth(agg.type))
       => /\ agg.res.err = "none"
          /\ agg.res = from_bits_aggregate(agg.data, agg.type)

\* C17: with reverse_endianness=True, to_bytes_aggregate returns the bytes
\* it returns without it in reverse order, and from_bytes_aggregate returns
\* what it returns without it on the bytes in reverse order.
C17_ReversedOnce ==
    /\ (/\ agg.op = "to_bytes"
        /\ agg.reverse_endianness
        /\ agg.res.err = "none")
       => agg.res = Ok(ReverseBytes(to_bytes_aggregate(agg.obj, FALSE).val))
    /\ (/\ agg.op = "from_bytes"
        /\ agg.reverse_endianness
        /\ ~agg.is_array
        /\ agg.res.err = "none")
       => agg.res = from_bytes_aggregate(ReverseBytes(agg.data), agg.type,
                                         FALSE, FALSE)

\* C18: from_bytes_aggregate(data, T, is_array=True) on data of one or more
\* segments of T's size, the last one possibly shorter, does not raise and
\* returns one element per segment.
C18_ArrayMode ==
    (/\ agg.op = "from_bytes"
     /\ agg.is_array
     /\ Len(agg.data) > 0
     /\ agg.type = agg.obj.type
     /\ agg.delta <= 0)
    => /\ agg.res.err = "none"
       /\ Len(agg.res.val.val) = (Len(agg.data) + DeclaredWidth(agg.type) - 1)
                                    \div DeclaredWidth(agg.type)

(***************************************************************************)
(* BitVector.startswith and BitVector.endswith.  The argument `substrings` *)
(* is one value (a BitVector, a str of 0s and 1s, or an int 0 or 1) or an  *)
(* iterable of values; a value is [kind, bits], where bits are the bits a  *)
(* BitVector, a str or a list of ints holds, or the one bit of an int.     *)
(***************************************************************************)
ItemsOf(kinds) ==
    {[kind |-> k, bits |-> c] :
        k \in kinds, c \in UNION {BitSeqs(n) : n \in 0..MaxCandidateLen}}

Ints == {[kind |-> "int", bits |-> <<bit>>] : bit \in {0, 1}}

Substrings ==
    {[iterable |-> FALSE, items |-> <<item>>] :
        item \in ItemsOf({"BitVector", "str"}) \cup Ints}
    \cup {[iterable |-> TRUE, items |-> items] :
            items \in UNION {[1..n -> ItemsOf({"BitVector", "str", "list"}) \cup Ints] :
                                n \in 0..MaxSubstrings}}

\* BitVector(source) for a BitVector, a str or a list of ints
BitVector(source) ==
    IF source.kind = "str" THEN from01(to01(source.bits)) ELSE Ok(source.bits)

\* is_instance_of_union(obj, BitsConstructible): a BitVector or a str is one
\* of the union's types; for a list the Iterable[Literal[0, 1]] member
\* answers bool(obj) or the test of next(iter(obj)), and next on an empty
\* list raises StopIteration inside the generator of any(...); an int is
\* no member.
is_instance_of_union(obj) ==
    CASE obj.kind \in {"BitVector", "str"} -> Ok(TRUE)
      [] obj.kind = "list" -> IF Len(obj.bits) > 0 THEN Ok(TRUE)
                              ELSE Raise("RuntimeError")
      [] OTHER -> Ok(FALSE)

\* all(is_instance_of_union(substring, BitsConstructible) for substring in ...)
RECURSIVE all_instances(_)
all_instances(list_of_substrings) ==
    IF Len(list_of_substrings) = 0 THEN Ok(TRUE)
    ELSE LET first == is_instance_of_union(Head(list_of_substrings))
         IN  IF first.err # "none" \/ ~first.val THEN first
             ELSE all_instances(Tail(list_of_substrings))

\* the list conv_substrings both methods build from their argument
conv_substrings(substrings) ==
    IF ~substrings.iterable
    THEN FirstError(<<BitVector(substrings.items[1])>>)
    ELSE LET list_of_substrings == substrings.items
         IN  IF \A i \in 1..Len(list_of_substrings) :
                    list_of_substrings[i].kind = "int"
             THEN Ok(<<Concat([i \in 1..Len(list_of_substrings) |->
                                  list_of_substrings[i].bits])>>)
             ELSE LET constructible == all_instances(list_of_substrings)
                  IN  IF constructible.err # "none" THEN constructible
                      ELSE IF constructible.val
                      THEN FirstError([i \in 1..Len(list_of_substrings) |->
                                          BitVector(list_of_substrings[i])])
                      ELSE Raise("ValueError")

ReverseSeq(s) == [i \in 1..Len(s) |-> s[Len(s) + 1 - i]]

\* Trie.build_prefix_trie: a node is the path of bits that leads to it from
\* the root; `marked` are the nodes whose is_start_of_prefix is set.
build_prefix_trie(prefixes) ==
    [nodes  |-> {<<>>} \cup UNION {{SubSeq(prefixes[i], 1, k) : k \in 0..Len(prefixes[i])} :
                                      i \in 1..Len(prefixes)},
     marked |-> {prefixes[i] : i \in 1..Len(prefixes)}]

\* Trie.build_suffix_trie: the same trie of the reversed suffixes; `marked`
\* are the nodes whose is_end_of_suffix is set.
build_suffix_trie(suffixes) ==
    build_prefix_trie([i \in 1..Len(suffixes) |-> ReverseSeq(suffixes[i])])

\* the loop of startswith from index i (0-based) with the node `current`
RECURSIVE prefix_walk(_, _, _, _, _)
prefix_walk(self, trie, current, i, stop) ==
    IF i >= stop THEN FALSE
    ELSE LET child == Append(current, self[i + 1])
         IN  IF child \notin trie.nodes THEN FALSE
             ELSE IF child \in trie.marked THEN TRUE
             ELSE prefix_walk(self, trie, child, i + 1, stop)

\* the loop of endswith from index i (0-based) down to start
RECURSIVE suffix_walk(_, _, _, _, _)
suffix_walk(self, trie, current, i, start) ==
    IF i < start THEN FALSE
    ELSE LET child == Append(current, self[i + 1])
         IN  IF child \notin trie.nodes THEN FALSE
             ELSE IF child \in trie.marked THEN TRUE
             ELSE suffix_walk(self, trie, child, i - 1, start)

\* stop is [given, val]: given is FALSE for stop=None
startswith(self, substrings, start, stop) ==
    LET conv == conv_substrings(substrings)
        stop0 == IF stop.given THEN stop.val ELSE Len(self)
        start1 == IF start > 0 THEN start ELSE 0
        stop1 == Min(Len(self), stop0)
    IN  IF conv.err # "none" THEN conv
        ELSE IF \E i \in 1..Len(conv.val) : Len(conv.val[i]) = 0 THEN Ok(TRUE)
        ELSE Ok(prefix_walk(self, build_prefix_trie(conv.val), <<>>, start1, stop1))

endswith(self, substrings, start, stop) ==
    LET conv == conv_substrings(substrings)
        stop0 == IF stop.given THEN stop.val ELSE Len(self)
        start1 == IF start > 0 THEN start ELSE 0
        stop1 == Min(Len(self), stop0)
    IN  IF conv.err # "none" THEN conv
        ELSE IF \E i \in 1..Len(conv.val) : Len(conv.val[i]) = 0 THEN Ok(TRUE)
        ELSE Ok(suffix_walk(self, build_suffix_trie(conv.val), <<>>, stop1 - 1, start1))

Haystacks == UNION {BitSeqs(n) : n \in 0..MaxHaystackLen}

Starts == (-1)..MaxHaystackLen

Stops ==
    {[given |-> FALSE, val |-> 0]}
    \cup {[given |-> TRUE, val |-> v] : v \in (-1)..(MaxHaystackLen + 1)}

StartsWith(b, substrings, start, stop) ==
    /\ bvec.op = "idle"
    /\ bvec' = [op |-> "startswith", self |-> b, substrings |-> substrings,
                start |-> start, stop |-> stop,
                res |-> startswith(b, substrings, start, stop)]
    /\ UNCHANGED <<intc, fltc, bt, agg>>

EndsWith(b, substrings, start, stop) ==
    /\ bvec.op = "idle"
    /\ bvec' = [op |-> "endswith", self |-> b, substrings |-> substrings,
                start |-> start, stop |-> stop,
                res |-> endswith(b, substrings, start, stop)]
    /\ UNCHANGED <<intc, fltc, bt, agg>>

NextSearch ==
    \/ /\ bvec.op = "idle"
       /\ \E b \in Haystacks, s \in Substrings, start \in Starts, stop \in Stops :
             StartsWith(b, s, start, stop)
    \/ /\ bvec.op = "idle"
       /\ \E b \in Haystacks, s \in Substrings, start \in Starts, stop \in Stops :
             EndsWith(b, s, start, stop)
    \/ BvReturn

SpecSearch == InitBitVector /\ [][NextSearch]_vars

(***************************************************************************)
(* Claims about startswith and endswith.                                   *)
(***************************************************************************)
\* the candidates an argument stands for: an iterable of ints is one
\* candidate, any other iterable holds one candidate per element
CandidatesOf(substrings) ==
    IF substrings.iterable
       /\ \A i \in 1..Len(substrings.items) : substrings.items[i].kind = "int"
    THEN {Concat([i \in 1..Len(substrings.items) |-> substrings.items[i].bits])}
    ELSE {substrings.items[i].bits : i \in 1..Len(substrings.items)}

\* every element of the argument is a candidate
AllCandidates(substrings) ==
    \/ ~substrings.iterable
    \/ \A i \in 1..Len(substrings.items) : substrings.items[i].kind = "int"
    \/ \A i \in 1..Len(substrings.items) : substrings.items[i].kind # "int"

\* c equals b[from : from + len(c)] (0-based, end exclusive)
EqualsAt(b, c, from) ==
    /\ from >= 0
    /\ from + Len(c) <= Len(b)
    /\ \A k \in 1..Len(c) : b[from + k] = c[k]

\* the range [start, stop) of a call, within the vector
RangeOf(b, start, stop) ==
    [start |-> IF start > 0 THEN start ELSE 0,
     stop  |-> IF stop.given /\ stop.val < Len(b) THEN stop.val ELSE Len(b)]

\* C19: startswith returns True exactly when some candidate c equals
\* b[start : start+len(c)] with start+len(c) <= stop, endswith exactly when
\* some candidate c equals b[stop-len(c) : stop] with stop-len(c) >= start,
\* and an empty candidate always matches: the answer is that of testing
\* every candidate on its own.
C19_TrieMatchesEach ==
    (bvec.op \in {"startswith", "endswith"} /\ AllCandidates(bvec.substrings))
    => LET range == RangeOf(bvec.self, bvec.start, bvec.stop)
           cands == CandidatesOf(bvec.substrings)
       IN  bvec.res =
             Ok(\E c \in cands :
                   \/ Len(c) = 0
                   \/ IF bvec.op = "startswith"
                      THEN /\ range.start + Len(c) <= range.stop
                           /\ EqualsAt(bvec.self, c, range.start)
                      ELSE /\ range.stop - Len(c) >= range.start
                           /\ EqualsAt(bvec.self, c, range.stop - Len(c)))

(***************************************************************************)
(* BitVector.replace.                                                      *)
(***************************************************************************)
\* self.find(value, start): the index (0-based) of the first occurrence of
\* value that begins at start or later, or -1
find(self, value, start) ==
    LET occurrences == {i \in start..(Len(self) - Len(value)) :
                           \A k \in 1..Len(value) : self[i + k] = value[k]}
    IN  IF occurrences = {} THEN -1
        ELSE CHOOSE i \in occurrences : \A j \in occurrences : i <= j

\* self[start:stop] for 0 <= start
getitem_slice(self, start, stop) == SubSeq(self, start + 1, Min(stop, Len(self)))

\* self[start:start + len(value)] = value, for a value that fits
setitem_slice(self, start, value) ==
    [i \in 1..Len(self) |->
        IF start < i /\ i <= start + Len(value) THEN value[i - start] ELSE self[i]]

\* the search resuming one bit past the start of the occurrence, so that
\* occurrences may overlap
resume_index_overlapping(found_index, old, new) == found_index + 1

\* the index at which the search resumes after a replacement
resume_index(found_index, old, new) == found_index + Len(old)

\* the while loop of replace; count is [given, val], given FALSE for None;
\* accumulated_bits is used only when old and new differ in length, and
\* self is written in place when they do not
RECURSIVE replace_loop(_, _, _, _, _, _, _)
replace_loop(self, old, new, count, num_replacements, index, accumulated_bits) ==
    LET found_index == find(self, old, index)
    IN  IF (count.given /\ ~(num_replacements < count.val)) \/ found_index = -1
        THEN [self |-> self, index |-> index, accumulated_bits |-> accumulated_bits]
        ELSE IF Len(old) = Len(new)
        THEN replace_loop(setitem_slice(self, found_index, new), old, new, count,
                          num_replacements + 1, resume_index(found_index, old, new),
                          accumulated_bits)
        ELSE replace_loop(self, old, new, count,
                          num_replacements + 1, resume_index(found_index, old, new),
                          accumulated_bits
                              \o getitem_slice(self, index, found_index) \o new)

\* b.replace(old, new, count): the vector returned, and self after the call
replace(self, old, new, count) ==
    LET end == replace_loop(self, old, new, count, 0, 0, <<>>)
    IN  IF Len(old) # Len(new)
        THEN [ret  |-> end.accumulated_bits
                         \o getitem_slice(end.self, end.index, Len(end.self)),
              self |-> end.self]
        ELSE [ret |-> end.self, self |-> end.self]

ReplaceVectors == UNION {BitSeqs(n) : n \in 0..MaxReplaceLen}

Olds == UNION {BitSeqs(n) : n \in 1..MaxOldLen}

News == UNION {BitSeqs(n) : n \in 0..MaxNewLen}

Counts ==
    {[given |-> FALSE, val |-> 0]}
    \cup {[given |-> TRUE, val |-> v] : v \in (-1)..MaxCount}

Replace(b, old, new, count) ==
    /\ bvec.op = "idle"
    /\ LET call == replace(b, old, new, count)
       IN  bvec' = [op |-> "replace", b |-> b, old |-> old, new |-> new,
                    count |-> count, self |-> call.self, res |-> Ok(call.ret)]
    /\ UNCHANGED <<intc, fltc, bt, agg>>

NextReplace ==
    \/ /\ bvec.op = "idle"
       /\ \E b \in ReplaceVectors, old \in Olds, new \in News, count \in Counts :
             Replace(b, old, new, count)
    \/ BvReturn

SpecReplace == InitBitVector /\ [][NextReplace]_vars

(***************************************************************************)
(* Claims about replace.                                                   *)
(***************************************************************************)
\* old occurs in b at pos (0-based)
OccursAt(b, old, pos) ==
    /\ pos + Len(old) <= Len(b)
    /\ \A k \in 1..Len(old) : b[pos + k] = old[k]

\* b from pos on, scanned left to right, with the first `left` occurrences
\* of old that do not overlap replaced by new (left = -1: all of them)
RECURSIVE Scanned(_, _, _, _, _)
Scanned(b, old, new, pos, left) ==
    IF pos >= Len(b) THEN <<>>
    ELSE IF left # 0 /\ OccursAt(b, old, pos)
    THEN new \o Scanned(b, old, new, pos + Len(old), IF left > 0 THEN left - 1 ELSE left)
    ELSE <<b[pos + 1]>> \o Scanned(b, old, new, pos + 1, left)

\* C20: replace with a non-empty old returns b scanned left to right with
\* the first min(count, k) of its k non-overlapping occurrences of old
\* replaced by new (all of them when count is None), each search resuming
\* just past the previous occurrence and every other bit kept in order.
C20_ReplaceScan ==
    (bvec.op = "replace")
    => bvec.res = Ok(Scanned(bvec.b, bvec.old, bvec.new, 0,
                             IF ~bvec.count.given THEN -1
                             ELSE IF bvec.count.val < 0 THEN 0 ELSE bvec.count.val))

\* 111000 with 1 -> 0 and count 2 gives 001000: a count below the number of
\* occurrences has stopped the replacement
C20_Witness ==
    /\ bvec.op = "replace"
    /\ bvec.b = <<1, 1, 1, 0, 0, 0>> /\ bvec.old = <<1>> /\ bvec.new = <<0>>
    /\ bvec.count = [given |-> TRUE, val |-> 2]
    /\ bvec.res = Ok(<<0, 0, 1, 0, 0, 0>>)

\* C21: replace generates a new BitVector and never modifies the receiver:
\* after the call the receiver holds the bits it held before, whether old
\* and new have the same length or not.
C21_ReceiverUnchanged ==
    (bvec.op = "replace") => bvec.self = bvec.b

(***************************************************************************)
(* BitVector.replace, one iteration of its while loop at a time.  The      *)
(* record holds the locals of the call; num_replacements is compared with  *)
(* count only, so it is kept up to MaxLoopCount + 1, and of the            *)
(* accumulated_bits the first MaxAccumulated bits are kept.                *)
(***************************************************************************)
LoopVectors == UNION {BitSeqs(n) : n \in 0..MaxLoopLen}

LoopCounts ==
    {[given |-> FALSE, val |-> 0]}
    \cup {[given |-> TRUE, val |-> v] : v \in 0..MaxLoopCount}

\* the call, up to the while loop
ReplaceCall(b, old, new, count) ==
    /\ bvec.op = "idle"
    /\ bvec' = [op |-> "replace_loop", self |-> b, old |-> old, new |-> new,
                count |-> count, num_replacements |-> 0, index |-> 0,
                accumulated_bits |-> <<>>, ret |-> <<>>]
    /\ UNCHANGED <<intc, fltc, bt, agg>>

\* float(num_replacements) < max_replacements
loop_condition(call) ==
    ~call.count.given \/ call.num_replacements < call.count.val

\* the bits of accumulated_bits the record keeps
kept(bits) == SubSeq(bits, 1, Min(Len(bits), MaxAccumulated))

\* one iteration that finds an occurrence
ReplaceIteration ==
    /\ bvec.op = "replace_loop"
    /\ loop_condition(bvec)
    /\ LET found_index == find(bvec.self, bvec.old, bvec.index)
       IN  /\ found_index # -1
           /\ bvec' = [bvec EXCEPT
                 !.self = IF Len(bvec.old) = Len(bvec.new)
                          THEN setitem_slice(@, found_index, bvec.new) ELSE @,
                 !.accumulated_bits =
                          IF Len(bvec.old) = Len(bvec.new) THEN @
                          ELSE kept(@ \o getitem_slice(bvec.self, bvec.index,
                                                        found_index)
                                      \o bvec.new),
                 !.index = resume_index(found_index, bvec.old, bvec.new),
                 !.num_replacements = Min(@ + 1, MaxLoopCount + 1)]
    /\ UNCHANGED <<intc, fltc, bt, agg>>

\* the loop ends, by its condition or by the break, and the call returns
ReplaceExit ==
    /\ bvec.op = "replace_loop"
    /\ ~loop_condition(bvec) \/ find(bvec.self, bvec.old, bvec.index) = -1
    /\ bvec' = [bvec EXCEPT
          !.op = "replace_return",
          !.ret = IF Len(bvec.old) # Len(bvec.new)
                  THEN bvec.accumulated_bits
                          \o getitem_slice(bvec.self, bvec.index, Len(bvec.self))
                  ELSE bvec.self]
    /\ UNCHANGED <<intc, fltc, bt, agg>>

\* the caller has the returned vector
ReplaceReturn ==
    /\ bvec.op = "replace_return"
    /\ bvec' = Idle
    /\ UNCHANGED <<intc, fltc, bt, agg>>

NextReplaceLoop ==
    \/ /\ bvec.op = "idle"
       /\ \E b \in LoopVectors, old \in LoopVectors, new \in LoopVectors,
             count \in LoopCounts : ReplaceCall(b, old, new, count)
    \/ ReplaceIteration
    \/ ReplaceExit
    \/ ReplaceReturn

\* a call that has begun keeps running: its iterations and its return are
\* never put off forever
SpecReplaceLoop ==
    /\ InitBitVector
    /\ [][NextReplaceLoop]_vars
    /\ WF_vars(ReplaceIteration)
    /\ WF_vars(ReplaceExit)

(***************************************************************************)
(* Claims about the termination of replace.                                *)
(***************************************************************************)
\* C22: replace terminates for every b, old, new and count, an empty old
\* and count=None included: a call that has entered its loop returns.
C22_ReplaceTerminates ==
    (bvec.op = "replace_loop") ~> (bvec.op = "replace_return")

(***************************************************************************)
(* The methods that change a BitVector in place: __delitem__, append,      *)
(* extend, insert, pop, remove, clear and reverse.  Indices are Python's,  *)
(* from 0; an outcome holds the bits of the vector after the call and, for *)
(* pop, the object returned.                                               *)
(***************************************************************************)
NoArg == [given |-> FALSE, val |-> 0]

Arg(v) == [given |-> TRUE, val |-> v]

InPlace(self, ret) == [err |-> "none", self |-> self, ret |-> ret]

InPlaceRaise(err, self) == [err |-> err, self |-> self, ret |-> <<>>]

without(self, index) == SubSeq(self, 1, index) \o SubSeq(self, index + 2, Len(self))

\* del self[key] for an int key
delitem(self, key) ==
    LET index == IF key < 0 THEN key + Len(self) ELSE key
    IN  IF index < 0 \/ index >= Len(self) THEN InPlaceRaise("IndexError", self)
        ELSE InPlace(without(self, index), <<>>)

append(self, value) == InPlace(Append(self, value), <<>>)

extend(self, values) == InPlace(self \o values, <<>>)

\* an index outside the vector is clamped to its ends, as list.insert does
insert(self, index, value) ==
    LET from_end == IF index < 0 THEN index + Len(self) ELSE index
        at == IF from_end < 0 THEN 0 ELSE Min(from_end, Len(self))
    IN  InPlace(SubSeq(self, 1, at) \o <<value>> \o SubSeq(self, at + 1, Len(self)),
                <<>>)

\* the index BitVector.pop hands to bitarray.pop
pop_index(self, index) == IF index.given THEN index.val ELSE Len(self) - 1

\* index >= len(self) or index < 0
pop_out_of_range(self, index) ==
    pop_index(self, index) >= Len(self) \/ pop_index(self, index) < 0

pop(self, index, default) ==
    IF pop_out_of_range(self, index)
    THEN IF default.given THEN InPlace(self, <<default.val>>)
         ELSE InPlaceRaise("IndexError", self)
    ELSE InPlace(without(self, pop_index(self, index)),
                 <<self[pop_index(self, index) + 1]>>)

\* the first occurrence of value goes
remove(self, value) ==
    IF find(self, <<value>>, 0) = -1 THEN InPlaceRaise("ValueError", self)
    ELSE InPlace(without(self, find(self, <<value>>, 0)), <<>>)

clear(self) == InPlace(<<>>, <<>>)

reverse(self) == InPlace([i \in 1..Len(self) |-> self[Len(self) + 1 - i]], <<>>)

Call(method, index, value, values, default) ==
    [method |-> method, index |-> index, value |-> value, values |-> values,
     default |-> default]

Indexes == (-1)..MaxIndex

InPlaceCalls ==
    {Call("__delitem__", Arg(i), 0, <<>>, NoArg) : i \in Indexes}
    \cup {Call("append", NoArg, v, <<>>, NoArg) : v \in {0, 1}}
    \cup {Call("extend", NoArg, 0, values, NoArg) :
              values \in UNION {BitSeqs(n) : n \in 1..MaxValuesLen}}
    \cup {Call("insert", Arg(i), v, <<>>, NoArg) : i \in Indexes, v \in {0, 1}}
    \cup {Call("pop", index, 0, <<>>, default) :
              index \in {NoArg} \cup {Arg(i) : i \in Indexes},
              default \in {NoArg, Arg(0), Arg(1)}}
    \cup {Call("remove", NoArg, v, <<>>, NoArg) : v \in {0, 1}}
    \cup {Call("clear", NoArg, 0, <<>>, NoArg), Call("reverse", NoArg, 0, <<>>, NoArg)}

\* the call on a vector that owns its memory
call_in_place(call, self) ==
    CASE call.method = "__delitem__" -> delitem(self, call.index.val)
      [] call.method = "append" -> append(self, call.value)
      [] call.method = "extend" -> extend(self, call.values)
      [] call.method = "insert" -> insert(self, call.index.val, call.value)
      [] call.method = "pop" -> pop(self, call.index, call.default)
      [] call.method = "remove" -> remove(self, call.value)
      [] call.method = "clear" -> clear(self)
      [] call.method = "reverse" -> reverse(self)

(***************************************************************************)
(* BitVector.__new__ and the memory its bits live in.  `heap` maps a       *)
(* block of memory to the bits it holds: "source" is the memory of the     *)
(* source object, "cast" that of the vector a deep __Bits__ returned and   *)
(* "vector" memory the constructor allocated; `memory` is the block the    *)
(* new BitVector reads and writes.  A bitarray keeps its bits in whole     *)
(* bytes, the pad bits behind the last bit being zero; the bitarray itself *)
(* reads the first len(self) bits of its memory, and a vector that imports *)
(* the memory as a buffer reads all of it, 8 bits for each byte.           *)
(***************************************************************************)
SourceKinds == {"bytes", "bytearray", "BitVector", "BitsCastable", "str", "iterable"}

SourceBits(kind) ==
    IF kind \in {"bytes", "bytearray"}
    THEN UNION {BitSeqs(8 * n) : n \in 1..MaxSourceBytes}
    ELSE UNION {BitSeqs(n) : n \in 1..MaxSourceLen}

\* the memory of a bitarray holding bits
whole_bytes(bits) == bits \o Repeat(0, (8 - (Len(bits) % 8)) % 8)

\* the memory of the source object, and of the vector its __Bits__ returns
source_memory(kind, bits) ==
    IF kind \in {"BitVector", "BitsCastable"} THEN whole_bytes(bits) ELSE bits

\* the bits the source object holds: the first len(source) bits of its memory
source_bits(new) == SubSeq(new.heap["source"], 1, Len(new.bits))

\* the bits of the new BitVector: all of the memory it imported, or the bits
\* of the memory allocated for it
self_bits(new) == new.heap[new.self.memory]

\* bitarray(buffer=obj): the memory of obj is imported, not copied, and a
\* read-only buffer makes a read-only bitarray
import_buffer(block, readonly) == [memory |-> block, readonly |-> readonly]

\* bitarray(initializer): a new block of memory
allocate == [memory |-> "vector", readonly |-> FALSE]

\* the branch of BitVector.__new__ taken; `deep` says whether the __Bits__
\* of a bit-castable source returns a vector of its own
new_bitvector(kind, explicit_buffer, deep) ==
    CASE explicit_buffer -> import_buffer("source", kind = "bytes")
      [] kind = "BitVector" -> allocate
      [] kind = "BitsCastable" -> import_buffer(IF deep THEN "cast" ELSE "source", FALSE)
      [] kind = "str" -> allocate
      [] kind \in {"bytes", "bytearray"} -> import_buffer("source", kind = "bytes")
      [] kind = "iterable" -> allocate

flip(bits, i) == [bits EXCEPT ![i] = 1 - @]

\* bitarray's delete_n moves the bits behind index one place down before it
\* resizes, so a deletion that fails on imported memory has moved them
deleted_at(call, self) ==
    CASE call.method = "__delitem__" ->
             IF call.index.val < 0 THEN call.index.val + Len(self) ELSE call.index.val
      [] call.method = "pop" -> pop_index(self, call.index)
      [] call.method = "remove" -> find(self, <<call.value>>, 0)

\* the call on a vector whose bits live in obj.memory: bitarray refuses to
\* write to read-only memory (TypeError) and to resize memory it imported
\* (BufferError); pop checks its index before it reaches bitarray
call_on_memory(obj, call, self) ==
    LET result == call_in_place(call, self)
    IN  IF call.method = "pop" /\ pop_out_of_range(self, call.index) THEN result
        ELSE IF obj.readonly THEN InPlaceRaise("TypeError", self)
        ELSE IF result.err # "none" \/ obj.memory = "vector" \/ call.method = "reverse"
        THEN result
        ELSE IF call.method \in {"__delitem__", "pop", "remove"}
        THEN InPlaceRaise("BufferError",
                          without(self, deleted_at(call, self)) \o <<self[Len(self)]>>)
        ELSE InPlaceRaise("BufferError", self)

New(kind, bits, explicit_buffer, deep) ==
    /\ bvec.op = "idle"
    /\ explicit_buffer => kind \in {"bytes", "bytearray"}
    /\ deep \/ kind = "BitsCastable"
    /\ bvec' = [op |-> "new", kind |-> kind, bits |-> bits,
                explicit_buffer |-> explicit_buffer, deep |-> deep,
                self |-> new_bitvector(kind, explicit_buffer, deep),
                heap |-> [block \in {"source", "cast", "vector"} |->
                            IF block = "vector" THEN bits
                            ELSE source_memory(kind, bits)],
                source_mutated |-> FALSE, self_mutated |-> FALSE,
                err |-> "none", ret |-> <<>>]
    /\ UNCHANGED <<intc, fltc, bt, agg>>

\* the source object is mutated in place: source[i] = 1 - source[i]
MutateSource(i) ==
    /\ bvec.op = "new"
    /\ bvec.kind \in {"bytearray", "BitVector", "BitsCastable", "iterable"}
    /\ i \in 1..Len(bvec.bits)
    /\ ~bvec.source_mutated
    /\ bvec' = [bvec EXCEPT !.heap["source"] = flip(@, i), !.source_mutated = TRUE]
    /\ UNCHANGED <<intc, fltc, bt, agg>>

\* the new BitVector is mutated in place: self[i] = 1 - self[i]
MutateSelf(i) ==
    /\ bvec.op = "new"
    /\ i \in 1..Len(self_bits(bvec))
    /\ ~bvec.self_mutated
    /\ bvec' = IF bvec.self.readonly
               THEN [bvec EXCEPT !.err = "TypeError", !.self_mutated = TRUE]
               ELSE [bvec EXCEPT !.heap[bvec.self.memory] = flip(@, i),
                                 !.self_mutated = TRUE]
    /\ UNCHANGED <<intc, fltc, bt, agg>>

\* one of the in-place methods is called on the new BitVector
CallSelf(call) ==
    /\ bvec.op = "new"
    /\ ~bvec.self_mutated
    /\ LET result == call_on_memory(bvec.self, call, self_bits(bvec))
       IN  bvec' = [bvec EXCEPT !.heap[bvec.self.memory] = result.self,
                                !.err = result.err, !.ret = result.ret,
                                !.self_mutated = TRUE]
    /\ UNCHANGED <<intc, fltc, bt, agg>>

NextNew ==
    \/ /\ bvec.op = "idle"
       /\ \E kind \in SourceKinds, explicit_buffer \in BOOLEAN, deep \in BOOLEAN :
             \E bits \in SourceBits(kind) : New(kind, bits, explicit_buffer, deep)
    \/ \E i \in 1..(8 * MaxSourceBytes) : MutateSource(i)
    \/ \E i \in 1..(8 * MaxSourceBytes) : MutateSelf(i)
    \/ /\ bvec.op = "new"
       /\ \E call \in InPlaceCalls : CallSelf(call)
    \/ BvReturn

SpecNew == InitBitVector /\ [][NextNew]_vars

(***************************************************************************)
(* Claims about construction.                                              *)
(***************************************************************************)
\* C23: a BitVector built without buffer= owns an independent copy of its
\* bits: a mutation of the source is not visible through it and a mutation
\* of it does not change the source.  (A bit-castable source is one whose
\* __Bits__ returns a vector of its own.)
C23_DefaultPathsCopy ==
    (bvec.op = "new" /\ ~bvec.explicit_buffer /\ bvec.deep)
    => /\ (bvec.source_mutated /\ ~bvec.self_mutated)
              => self_bits(bvec) = bvec.bits
       /\ (bvec.self_mutated /\ ~bvec.source_mutated)
              => source_bits(bvec) = bvec.bits

(***************************************************************************)
(* Augmented assignment `a op= x` on a BitVector.  `objects` is the heap   *)
(* of BitVector objects by identity; before the statement the names a and  *)
(* b are both bound to object 1.  Python binds a to whatever the in-place  *)
(* method returns.                                                         *)
(***************************************************************************)
AugmentedOperators == {"+=", "*=", "&=", "|=", "^=", "<<=", ">>="}

Operands == UNION {BitSeqs(n) : n \in 0..MaxOperandLen}

ShiftCounts == (-1)..MaxShift

\* bitarray's element-wise operators want operands of one length
bitwise(f(_, _), self, other) ==
    IF Len(self) # Len(other) THEN Raise("ValueError")
    ELSE Ok([i \in 1..Len(self) |-> f(self[i], other[i])])

bit_and(x, y) == x * y

bit_or(x, y) == IF x + y > 0 THEN 1 ELSE 0

bit_xor(x, y) == (x + y) % 2

and(self, other) == bitwise(bit_and, self, other)

or(self, other) == bitwise(bit_or, self, other)

xor(self, other) == bitwise(bit_xor, self, other)

lshift(self, count) ==
    IF count < 0 THEN Raise("ValueError")
    ELSE Ok([i \in 1..Len(self) |-> IF i + count <= Len(self) THEN self[i + count] ELSE 0])

rshift(self, count) ==
    IF count < 0 THEN Raise("ValueError")
    ELSE Ok([i \in 1..Len(self) |-> IF i - count >= 1 THEN self[i - count] ELSE 0])

\* the method changed object 1 itself and returned it
in_place(bits) == [objects |-> <<bits>>, a |-> 1, err |-> "none"]

\* the method returned `result`, a new object, and left object 1 alone
new_object(self, result) ==
    IF result.err # "none" THEN [objects |-> <<self>>, a |-> 1, err |-> result.err]
    ELSE [objects |-> <<self, result.val>>, a |-> 2, err |-> "none"]

iadd(self, other) == in_place(self \o other)

imul(self, count) == in_place(Concat(Repeat(self, IF count < 0 THEN 0 ELSE count)))

iand(self, other) == new_object(self, and(self, other))

ior(self, other) == new_object(self, or(self, other))

ixor(self, other) == new_object(self, xor(self, other))

ilshift(self, count) == new_object(self, lshift(self, count))

irshift(self, count) == new_object(self, rshift(self, count))

augmented_assignment(operator, self, other, count) ==
    CASE operator = "+=" -> iadd(self, other)
      [] operator = "*=" -> imul(self, count)
      [] operator = "&=" -> iand(self, other)
      [] operator = "|=" -> ior(self, other)
      [] operator = "^=" -> ixor(self, other)
      [] operator = "<<=" -> ilshift(self, count)
      [] operator = ">>=" -> irshift(self, count)

AugmentedAssignment(operator, self, other, count) ==
    /\ bvec.op = "idle"
    /\ IF operator \in {"*=", "<<=", ">>="} THEN other = <<>> ELSE count = 0
    /\ bvec' = [op |-> "augmented", operator |-> operator, self |-> self,
                other |-> other, count |-> count, b |-> 1,
                after |-> augmented_assignment(operator, self, other, count)]
    /\ UNCHANGED <<intc, fltc, bt, agg>>

NextAugmented ==
    \/ /\ bvec.op = "idle"
       /\ \E operator \in AugmentedOperators, self \in Operands, other \in Operands,
             count \in ShiftCounts : AugmentedAssignment(operator, self, other, count)
    \/ BvReturn

SpecAugmented == InitBitVector /\ [][NextAugmented]_vars

(***************************************************************************)
(* Claims about augmented assignment.                                      *)
(***************************************************************************)
\* C24: after a successful `a &= x`, `a |= x`, `a ^= x`, `a <<= n` or
\* `a >>= n` the object that a referred to before the statement is the
\* object a refers to now and holds the new bits, so the other reference b
\* observes them, as with += and *=.
C24_AugmentedInPlace ==
    (bvec.op = "augmented" /\ bvec.after.err = "none")
    => /\ bvec.after.a = bvec.b
       /\ bvec.after.objects[bvec.b] = bvec.after.objects[bvec.after.a]

(***************************************************************************)
(* String with a codepoint-substitution table.  A text is a sequence of    *)
(* codepoints; a table is the sequence of its (key, value) items, in dict  *)
(* order, or None.  `cls` holds the four caches of the class; a cache is   *)
(* keyed by the hash of the table, which does not change here, so a cache  *)
(* is either empty (FALSE) or holds the value computed from the table.     *)
(***************************************************************************)
Str16 == TypeOf("BitType", "String", 16, "", 0, <<>>)

Chars == {97, 98}

Texts == [1..(Str16.num_bits \div 8) -> Chars]

Items == UNION {[1..n -> Chars \X Chars] : n \in 0..MaxTableLen}

\* a dict has each key once
Tables ==
    {[given |-> FALSE, items |-> <<>>]} \cup
    {[given |-> TRUE, items |-> items] : items \in
        {t \in Items : \A i, j \in 1..Len(t) : i # j => t[i][1] # t[j][1]}}

\* the tables handed to the setter: one substitution each
NewTables == {t \in Tables : t.given /\ Len(t.items) = 1}

\* a cache of the class is None while it is empty; once filled it holds the
\* table its value was computed from, which stands for the hash the code
\* stores (the hash of the sorted items) and for the value stored with it
NoCaches ==
    [codepoint_changes_cache |-> [given |-> FALSE, items |-> <<>>],
     reverse_codepoint_changes_cache |-> [given |-> FALSE, items |-> <<>>],
     codepoint_change_regex_cache |-> [given |-> FALSE, items |-> <<>>],
     reverse_codepoint_changes_regex_cache |-> [given |-> FALSE, items |-> <<>>]]

None == [given |-> FALSE, items |-> <<>>]

Returned(ret, cls) == [err |-> "none", ret |-> ret, cls |-> cls]

Raised(err, cls) == [err |-> err, ret |-> None, cls |-> cls]

\* mapping[key]; the last item with the key is the one a dict keeps
RECURSIVE lookup(_, _)
lookup(items, key) ==
    IF Len(items) = 0 THEN key
    ELSE IF items[Len(items)][1] = key THEN items[Len(items)][2]
    ELSE lookup(SubSeq(items, 1, Len(items) - 1), key)

\* {v: k for k, v in codepoint_changes.items()}
reversed_items(items) == [i \in 1..Len(items) |-> <<items[i][2], items[i][1]>>]

\* cache and cache[0] == hash(table): FrozenDict hashes the sorted tuple of
\* its items, so tables with the same items hash alike
cache_hit(cache, table) ==
    /\ cache.given
    /\ {cache.items[i] : i \in 1..Len(cache.items)}
          = {table.items[i] : i \in 1..Len(table.items)}

\* String.codepoint_changes: a hit returns the cached mapping; a miss fills
\* the cache and falls off the end of the function
codepoint_changes(table, cls) ==
    IF ~table.given THEN Returned(None, cls)
    ELSE IF cache_hit(cls.codepoint_changes_cache, table)
    THEN Returned(cls.codepoint_changes_cache, cls)
    ELSE Returned(None, [cls EXCEPT !.codepoint_changes_cache = table])

\* String._reverse_codepoint_changes
reverse_codepoint_changes(table, cls) ==
    IF ~table.given THEN Returned(None, cls)
    ELSE IF cache_hit(cls.reverse_codepoint_changes_cache, table)
    THEN Returned([given |-> TRUE,
                   items |-> reversed_items(cls.reverse_codepoint_changes_cache.items)],
                  cls)
    ELSE LET changes == codepoint_changes(table, cls)
         IN  IF ~changes.ret.given THEN Raised("AttributeError", changes.cls)
             ELSE Returned(None, [changes.cls EXCEPT
                                    !.reverse_codepoint_changes_cache = changes.ret])

truthy(changes) == changes.given /\ Len(changes.items) > 0

\* the regex cache after the getter ran with the mapping `changes`
regex_cache(cache, changes) == IF cache_hit(cache, changes) THEN cache ELSE changes

\* String._codepoint_change_regex: the alternation of the keys, or None
codepoint_change_regex(table, cls) ==
    LET changes == codepoint_changes(table, cls)
        cache == regex_cache(cls.codepoint_change_regex_cache, changes.ret)
    IN  IF truthy(changes.ret)
        THEN Returned(cache, [changes.cls EXCEPT !.codepoint_change_regex_cache = cache])
        ELSE Returned(None, changes.cls)

\* String._reverse_codepoint_change_regex: the alternation of the values
reverse_codepoint_change_regex(table, cls) ==
    LET changes == codepoint_changes(table, cls)
        cache == regex_cache(cls.reverse_codepoint_changes_regex_cache, changes.ret)
    IN  IF truthy(changes.ret)
        THEN Returned([given |-> TRUE, items |-> reversed_items(cache.items)],
                      [changes.cls EXCEPT
                         !.reverse_codepoint_changes_regex_cache = cache])
        ELSE Returned(None, changes.cls)

\* changes_regex.sub(lambda match: codepoint_changes[match.group(0)], s):
\* each codepoint the pattern matches is replaced
perform_codepoint_substitution(input_string, changes, changes_regex) ==
    IF ~changes_regex.given THEN Raise("AttributeError")
    ELSE Ok([i \in 1..Len(input_string) |->
               IF \E j \in 1..Len(changes_regex.items) :
                     changes_regex.items[j][1] = input_string[i]
               THEN lookup(changes.items, input_string[i])
               ELSE input_string[i]])

substituted(temp_value, changes, regex) ==
    LET result == perform_codepoint_substitution(temp_value, changes.ret, regex.ret)
    IN  IF result.err # "none" THEN Raised(result.err, regex.cls)
        ELSE [err |-> "none", ret |-> result.val, cls |-> regex.cls]

\* the getter of String.value: [err, ret, cls]
string_value_get(bits, table, cls) ==
    LET temp_value == utf8_decode(tobytes(bits))
        changes == codepoint_changes(table, cls)
    IN  IF temp_value.err # "none" THEN Raised(temp_value.err, cls)
        ELSE IF changes.ret.given
        THEN substituted(temp_value.val, changes, codepoint_change_regex(table, changes.cls))
        ELSE [err |-> "none", ret |-> temp_value.val, cls |-> changes.cls]

encoded(result) ==
    IF result.err # "none" THEN result
    ELSE LET bits == bits_set(Str16, utf8_encode(result.ret))
         IN  IF bits.err # "none" THEN Raised(bits.err, result.cls)
             ELSE [err |-> "none", ret |-> bits.val, cls |-> result.cls]

\* the setter of String.value: [err, ret, cls] with ret the new bits
string_value_set(value, table, cls) ==
    LET changes == reverse_codepoint_changes(table, cls)
    IN  IF changes.err # "none" THEN changes
        ELSE IF changes.ret.given
        THEN encoded(substituted(value, changes,
                                 reverse_codepoint_change_regex(table, changes.cls)))
        ELSE encoded([err |-> "none", ret |-> value, cls |-> changes.cls])

\* a subclass of Str16 with _codepoint_changes = table, and an instance of
\* it made from bits
NewString(table, text) ==
    /\ bt.op = "idle"
    /\ bt' = [op |-> "string", table |-> table, cls |-> NoCaches,
              bits |-> utf8_encode(text), access |-> "none", text |-> <<>>,
              before |-> <<>>, err |-> "none", ret |-> <<>>, changes |-> 0]
    /\ UNCHANGED <<intc, fltc, agg, bvec>>

\* instance.codepoint_changes = table, a str -> str mapping: the setter
\* replaces the table of the class and leaves the caches as they are
SetCodepointChanges(table) ==
    /\ bt.op = "string"
    /\ bt.changes < MaxTableChanges
    /\ table.given
    /\ bt' = [bt EXCEPT !.table = table, !.access = "none", !.text = <<>>,
                        !.before = <<>>, !.err = "none", !.ret = <<>>,
                        !.changes = @ + 1]
    /\ UNCHANGED <<intc, fltc, agg, bvec>>

\* instance.value
StringRead ==
    /\ bt.op = "string"
    /\ LET result == string_value_get(bt.bits, bt.table, bt.cls)
       IN  bt' = [bt EXCEPT !.access = "read", !.cls = result.cls, !.text = <<>>,
                            !.before = bt.bits, !.err = result.err,
                            !.ret = IF result.err = "none" THEN result.ret ELSE <<>>]
    /\ UNCHANGED <<intc, fltc, agg, bvec>>

\* instance.value = text
StringAssign(text) ==
    /\ bt.op = "string"
    /\ LET result == string_value_set(text, bt.table, bt.cls)
       IN  bt' = [bt EXCEPT !.access = "assign", !.cls = result.cls, !.text = text,
                            !.before = bt.bits, !.err = result.err, !.ret = <<>>,
                            !.bits = IF result.err = "none" THEN result.ret ELSE @]
    /\ UNCHANGED <<intc, fltc, agg, bvec>>

NextString ==
    \/ /\ bt.op = "idle"
       /\ \E table \in Tables, text \in Texts : NewString(table, text)
    \/ StringRead
    \/ /\ bt.op = "string"
       /\ \E text \in Texts : StringAssign(text)
    \/ /\ bt.op = "string"
       /\ \E table \in NewTables : SetCodepointChanges(table)
    \/ Discard

SpecString == InitBitType /\ [][NextString]_vars

(***************************************************************************)
(* Claims about String.                                                    *)
(***************************************************************************)
\* the text with each codepoint that is a key of the items replaced
Applied(text, items) == [i \in 1..Len(text) |-> lookup(items, text[i])]

\* C25: with a non-empty substitution table every read of value returns
\* the decoded text with the table applied and every assignment stores the
\* encoding of the text with the reverse table applied, from the first
\* access on.
C25_TableAlwaysApplied ==
    (bt.op = "string" /\ bt.table.given /\ Len(bt.table.items) > 0)
    => /\ bt.access = "read" =>
              /\ bt.err = "none"
              /\ bt.ret = Applied(utf8_decode(tobytes(bt.before)).val, bt.table.items)
       /\ bt.access = "assign" =>
              /\ bt.err = "none"
              /\ bt.bits = utf8_encode(Applied(bt.text, reversed_items(bt.table.items)))

(***************************************************************************)
(* BitType.__eq__.                                                         *)
(***************************************************************************)
\* Python's == on two values of the py_type of T
py_eq(T, a, b) == IF py_type(T) = "float" THEN FloatEq(a, b) ELSE a = b

\* self == other with self of type T; `native` holds the other operand when
\* it is not an instance of T but a bare value
eq(T, endianness, self, other, native) ==
    LET self_value == value_get(T, endianness, self)
        other_value == IF Len(native) = 0 THEN value_get(T, endianness, other)
                       ELSE Ok(native[1])
    IN  IF self_value.err # "none" THEN self_value
        ELSE IF other_value.err # "none" THEN other_value
        ELSE Ok(py_eq(T, self_value.val, other_value.val))

InstanceBits(T) == {b \in BitSources(T) : Len(b) = T.num_bits}

Eq(T, endianness, self, other, native) ==
    /\ bt.op = "idle"
    /\ bt' = [op |-> "eq", type |-> T, endianness |-> endianness, self |-> self,
              other |-> other, native |-> native,
              res |-> eq(T, endianness, self, other, native)]
    /\ UNCHANGED <<intc, fltc, agg, bvec>>

NextEq ==
    \/ /\ bt.op = "idle"
       /\ \E T \in BitTypes, e \in Endiannesses : \E self \in InstanceBits(T) :
             \/ \E other \in InstanceBits(T) : Eq(T, e, self, other, <<>>)
             \/ \E value \in PyValues(T) : Eq(T, e, self, <<>>, <<value>>)
    \/ Discard

SpecEq == InitBitType /\ [][NextEq]_vars

(***************************************************************************)
(* Claims about equality.                                                  *)
(***************************************************************************)
\* the values are equal, NaN counting as equal to NaN
SameValue(T, a, b) ==
    IF py_type(T) = "float" THEN (a.kind = "nan" /\ b.kind = "nan") \/ FloatEq(a, b)
    ELSE a = b

\* C26: two instances of one bit-type compare equal exactly when their
\* values are equal, NaN being equal to NaN.
C26_EqualIffSameValue ==
    (bt.op = "eq" /\ Len(bt.native) = 0 /\ bt.res.err = "none")
    => bt.res.val = SameValue(bt.type,
                              value_get(bt.type, bt.endianness, bt.self).val,
                              value_get(bt.type, bt.endianness, bt.other).val)

(***************************************************************************)
(* BitVector.hex/oct/bin and fromhex/fromoct/frombin.  A str is the        *)
(* sequence of its characters.                                             *)
(***************************************************************************)
Digits == <<"0", "1", "2", "3", "4", "5", "6", "7",
            "8", "9", "a", "b", "c", "d", "e", "f">>

UpperDigits == <<"0", "1", "2", "3", "4", "5", "6", "7",
                 "8", "9", "A", "B", "C", "D", "E", "F">>

Bases == {2, 8, 16}

\* math.log2(base)
bits_per_char(base) == CASE base = 2 -> 1 [] base = 8 -> 3 [] base = 16 -> 4

\* bitarray.util.ba2base(base, bits): one digit for each group of bits; the
\* length has to be a multiple of the group size
ba2base(base, bits) ==
    LET m == bits_per_char(base)
    IN  IF Len(bits) % m # 0 THEN Raise("ValueError")
        ELSE Ok([i \in 1..(Len(bits) \div m) |->
                   Digits[BitsToNat(SubSeq(bits, (i - 1) * m + 1, i * m)) + 1]])

digit_value(base, char) ==
    IF \E d \in 1..base : Digits[d] = char \/ UpperDigits[d] = char
    THEN (CHOOSE d \in 1..base : Digits[d] = char \/ UpperDigits[d] = char) - 1
    ELSE -1

\* bitarray.util.base2ba(base, string)
base2ba(base, string) ==
    IF \E i \in 1..Len(string) : digit_value(base, string[i]) < 0
    THEN Raise("ValueError")
    ELSE Ok(Concat([i \in 1..Len(string) |->
                      TwosBits(digit_value(base, string[i]), bits_per_char(base))]))

\* sep.join(string[i : i + chars_per_sep] for i in range(0, len(string), chars_per_sep))
RECURSIVE join_chunks(_, _, _)
join_chunks(sep, string, chars_per_sep) ==
    IF Len(string) <= chars_per_sep THEN string
    ELSE SubSeq(string, 1, chars_per_sep) \o sep
         \o join_chunks(sep, SubSeq(string, chars_per_sep + 1, Len(string)), chars_per_sep)

\* int(8 / bits_per_char + 0.999999999)
chars_per_byte(base) == (8 + bits_per_char(base) - 1) \div bits_per_char(base)

\* tobase with the digits of the integer the bits spell, as hex(int) writes
\* them: without leading zeros
tobase_of_int(self, base, sep, bytes_per_sep) ==
    LET retstring == ba2base(base, self)
        first == IF \E i \in 1..Len(retstring.val) : retstring.val[i] # "0"
                 THEN CHOOSE i \in 1..Len(retstring.val) :
                         /\ retstring.val[i] # "0"
                         /\ \A j \in 1..(i - 1) : retstring.val[j] = "0"
                 ELSE Len(retstring.val)
    IN  IF retstring.err # "none" \/ Len(retstring.val) = 0 THEN retstring
        ELSE Ok(SubSeq(retstring.val, first, Len(retstring.val)))

\* BitVector.tobase(base, sep, bytes_per_sep); sep is [given, val]
tobase(self, base, sep, bytes_per_sep) ==
    LET retstring == ba2base(base, self)
    IN  IF retstring.err # "none" \/ ~sep.given THEN retstring
        ELSE Ok(join_chunks(sep.val, retstring.val, chars_per_byte(base) * bytes_per_sep))

prefixed(prefix, string) ==
    IF string.err # "none" THEN string ELSE Ok(prefix \o string.val)

hex(self, sep, bytes_per_sep) == prefixed(<<"0", "x">>, tobase(self, 16, sep, bytes_per_sep))

oct(self, sep, bytes_per_sep) == prefixed(<<"0", "o">>, tobase(self, 8, sep, bytes_per_sep))

sep_to01(self, sep, bytes_per_sep) ==
    IF sep.given THEN join_chunks(sep.val, to01(self), 8 * bytes_per_sep) ELSE to01(self)

vector_bin(self, sep, bytes_per_sep) == Ok(<<"0", "b">> \o sep_to01(self, sep, bytes_per_sep))

\* string[2:] if string.startswith(prefix)
without_prefix(string, prefix) ==
    IF Len(string) >= 2 /\ SubSeq(string, 1, 2) = prefix
    THEN SubSeq(string, 3, Len(string)) ELSE string

\* base2ba(base, string)[: bits * len(string)]
from_digits(base, string) ==
    LET bit_array == base2ba(base, string)
    IN  IF bit_array.err # "none" THEN bit_array
        ELSE Ok(SubSeq(bit_array.val, 1,
                       Min(Len(bit_array.val), bits_per_char(base) * Len(string))))

fromhex(string) == from_digits(16, without_prefix(strip_separators(string), <<"0", "x">>))

fromoct(string) == from_digits(8, without_prefix(strip_separators(string), <<"0", "o">>))

frombin(string) == from01(without_prefix(string, <<"0", "b">>))

Separators == {[given |-> FALSE, val |-> <<>>], [given |-> TRUE, val |-> <<"_">>]}

\* b.hex(sep), b.oct(sep) or b.bin(sep)
ToBase(base, b, sep) ==
    /\ bvec.op = "idle"
    /\ bvec' = [op |-> "tobase", base |-> base, b |-> b, sep |-> sep,
                string |-> CASE base = 16 -> hex(b, sep, 1)
                             [] base = 8 -> oct(b, sep, 1)
                             [] base = 2 -> vector_bin(b, sep, 1),
                back |-> Ok(<<>>)]
    /\ UNCHANGED <<intc, fltc, bt, agg>>

\* BitVector.fromhex, fromoct or frombin of the string just written
FromBase ==
    /\ bvec.op = "tobase"
    /\ bvec.string.err = "none"
    /\ bvec' = [bvec EXCEPT !.op = "frombase",
                            !.back = CASE bvec.base = 16 -> fromhex(bvec.string.val)
                                       [] bvec.base = 8 -> fromoct(bvec.string.val)
                                       [] bvec.base = 2 -> frombin(bvec.string.val)]
    /\ UNCHANGED <<intc, fltc, bt, agg>>

NextBase ==
    \/ /\ bvec.op = "idle"
       /\ \E base \in Bases, b \in Vectors, sep \in Separators : ToBase(base, b, sep)
    \/ FromBase
    \/ BvReturn

SpecBase == InitBitVector /\ [][NextBase]_vars

(***************************************************************************)
(* Claims about the base conversions.                                      *)
(***************************************************************************)
\* C27: a vector whose length is a multiple of the bits of a digit (4 for
\* hex, 3 for oct, 1 for bin) is written by hex/oct/bin and read back by
\* fromhex/fromoct/frombin as itself, leading zero digits included.
C27_BaseRoundTrip ==
    /\ (bvec.op = "tobase" /\ Len(bvec.b) % bits_per_char(bvec.base) = 0)
           => bvec.string.err = "none"
    /\ bvec.op = "frombase" => bvec.back = Ok(bvec.b)

C27_Witness ==
    /\ bvec.op = "frombase"
    /\ bvec.base = 16
    /\ ~bvec.sep.given
    /\ Len(bvec.b) = 8
    /\ SubSeq(bvec.b, 1, 5) = <<0, 0, 0, 0, 1>>
    /\ bvec.string.val[3] = "0"
    /\ bvec.back = Ok(bvec.b)

(***************************************************************************)
(* BitVector.lstrip, rstrip and strip.  The bit to strip is [given, val],  *)
(* None standing for the default.                                          *)
(***************************************************************************)
\* self.rfind(value): the index (0-based) of the last occurrence, or -1
rfind(self, value) ==
    LET occurrences == {i \in 0..(Len(self) - Len(value)) :
                           \A k \in 1..Len(value) : self[i + k] = value[k]}
    IN  IF occurrences = {} THEN -1
        ELSE CHOOSE i \in occurrences : \A j \in occurrences : i >= j

\* the bit the search looks for: the one that is not stripped
kept_bit(bits) == IF ~bits.given \/ bits.val = 0 THEN 1 ELSE 0

\* lstrip taking off a single leading bit
lstrip_one_bit(self, bits) ==
    IF Len(self) > 0 /\ self[1] # kept_bit(bits) THEN Tail(self) ELSE self

lstrip(self, bits) ==
    LET retvalindex == find(self, <<kept_bit(bits)>>, 0)
    IN  IF retvalindex = -1 THEN <<>>
        ELSE getitem_slice(self, retvalindex, Len(self))

rstrip(self, bits) ==
    LET retvalindex == rfind(self, <<kept_bit(bits)>>)
    IN  IF retvalindex = -1 THEN <<>>
        ELSE getitem_slice(self, 0, retvalindex + 1)

strip(self, bits) == rstrip(lstrip(self, bits), bits)

StripBits == {[given |-> FALSE, val |-> 0], [given |-> TRUE, val |-> 0],
              [given |-> TRUE, val |-> 1]}

\* s = b.strip(bits)
Strip(b, bits) ==
    /\ bvec.op = "idle"
    /\ bvec' = [op |-> "strip", b |-> b, bits |-> bits, s |-> strip(b, bits),
                again |-> <<>>]
    /\ UNCHANGED <<intc, fltc, bt, agg>>

\* s.strip(bits)
StripAgain ==
    /\ bvec.op = "strip"
    /\ bvec' = [bvec EXCEPT !.op = "strip_again", !.again = strip(bvec.s, bvec.bits)]
    /\ UNCHANGED <<intc, fltc, bt, agg>>

NextStrip ==
    \/ /\ bvec.op = "idle"
       /\ \E b \in Vectors, bits \in StripBits : Strip(b, bits)
    \/ StripAgain
    \/ BvReturn

SpecStrip == InitBitVector /\ [][NextStrip]_vars

(***************************************************************************)
(* Claims about strip.                                                     *)
(***************************************************************************)
\* C28: b.strip(v) is b without its maximal runs of leading and trailing
\* bits equal to v (v is 0 by default): b is a run of v, then the result,
\* then a run of v, and the result is empty or begins and ends with the
\* other bit; stripping the result again gives the result.
C28_StripIdempotent ==
    LET v == IF bvec.bits.given THEN bvec.bits.val ELSE 0
    IN  /\ bvec.op \in {"strip", "strip_again"} =>
              /\ \E i, j \in 0..Len(bvec.b) :
                    bvec.b = Repeat(v, i) \o bvec.s \o Repeat(v, j)
              /\ Len(bvec.s) > 0 => bvec.s[1] # v /\ bvec.s[Len(bvec.s)] # v
        /\ bvec.op = "strip_again" => bvec.again = bvec.s

C28_Witness ==
    /\ bvec.op = "strip_again"
    /\ bvec.bits.given
    /\ bvec.bits.val = 1
    /\ bvec.b = <<1, 1, 0, 1, 0, 1>>
    /\ bvec.s = <<0, 1, 0>>
    /\ bvec.again = <<0, 1, 0>>

(***************************************************************************)
(* SInt under a changing SignedConfig.signed_int_format.  `config` is the  *)
(* value of SignedConfig.signed_int_format at the time of the call and     *)
(* int_format the attribute the instance got at construction.              *)
(***************************************************************************)
IntFormats == {"twos_complement", "signed_magnitude", "ones_complement"}

\* SInt4 is not struct-packed, SInt8 is
SIntTypes == {SInt4, SInt8}

\* the skip_struct_packing of the struct-packed SInt classes
sint_skip_struct_packing(config) == config # "twos_complement"

\* int_format if given, else SignedConfig.signed_int_format
sint_int_format(int_format, config) ==
    IF int_format.given THEN int_format.val ELSE config

\* the value getter: StructPackedBitType.value for a class with a packing
\* letter, which falls back on SInt.value when struct packing is skipped
sint_value_get(T, endianness, bits, int_format, config) ==
    IF T.letter # "" /\ ~sint_skip_struct_packing(config)
    THEN struct_unpack(T.letter, endianness, tobytes(bits))
    ELSE to_pyint(to01(bits), TRUE, int_format)

\* the value setter: `super().value = value` raises AttributeError
sint_value_set(T, endianness, value, int_format, config) ==
    IF T.letter # ""
    THEN (IF sint_skip_struct_packing(config) THEN Raise("AttributeError")
          ELSE struct_pack(T.letter, endianness, value))
    ELSE bits_set_from01(T, to_bitstring(value, TRUE, T.num_bits, int_format))

SIntState(T, endianness, int_format, config, res) ==
    [op |-> "sint", type |-> T, endianness |-> endianness, int_format |-> int_format,
     config |-> config, live |-> res.err = "none", err |-> res.err, bits |-> res.val,
     initial |-> IF res.err = "none"
                 THEN sint_value_get(T, endianness, res.val, int_format, config)
                 ELSE res,
     read |-> FALSE, value |-> Ok(0)]

\* T(value=value, endianness=endianness, int_format=int_format)
NewSInt(T, endianness, value, int_format, config) ==
    /\ bt.op = "idle"
    /\ bt' = SIntState(T, endianness, sint_int_format(int_format, config), config,
                       sint_value_set(T, endianness, value,
                                      sint_int_format(int_format, config), config))
    /\ UNCHANGED <<intc, fltc, agg, bvec>>

\* T(bits=bits, endianness=endianness, int_format=int_format)
NewSIntFromBits(T, endianness, bits, int_format, config) ==
    /\ bt.op = "idle"
    /\ bt' = SIntState(T, endianness, sint_int_format(int_format, config), config,
                       init_from_bits(T, bits))
    /\ UNCHANGED <<intc, fltc, agg, bvec>>

\* SignedConfig.signed_int_format = config
SetSignedIntFormat(config) ==
    /\ bt.op = "sint"
    /\ bt.live
    /\ config # bt.config
    /\ bt' = [bt EXCEPT !.config = config, !.read = FALSE]
    /\ UNCHANGED <<intc, fltc, agg, bvec>>

\* instance.value
ReadSInt ==
    /\ bt.op = "sint"
    /\ bt.live
    /\ ~bt.read
    /\ bt' = [bt EXCEPT !.read = TRUE,
                        !.value = sint_value_get(bt.type, bt.endianness, bt.bits,
                                                 bt.int_format, bt.config)]
    /\ UNCHANGED <<intc, fltc, agg, bvec>>

OptionalFormats ==
    {[given |-> FALSE, val |-> "twos_complement"]}
    \cup {[given |-> TRUE, val |-> f] : f \in IntFormats}

NextSInt ==
    \/ /\ bt.op = "idle"
       /\ \E T \in SIntTypes, e \in Endiannesses, f \in OptionalFormats,
             config \in IntFormats :
             \/ \E v \in IntSamples : NewSInt(T, e, v, f, config)
             \/ \E b \in InstanceBits(T) : NewSIntFromBits(T, e, b, f, config)
    \/ /\ bt.op = "sint"
       /\ \E config \in IntFormats : SetSignedIntFormat(config)
    \/ ReadSInt
    \/ Discard

SpecSInt == InitBitType /\ [][NextSInt]_vars

(***************************************************************************)
(* Claims about SInt and SignedConfig.                                     *)
(***************************************************************************)
\* C29: the value read from an SInt instance is the value it had when it
\* was constructed, whatever SignedConfig.signed_int_format has been set
\* to since and whatever int_format the instance was given.
C29_ValueIndependentOfConfig ==
    (bt.op = "sint" /\ bt.live /\ bt.read) => bt.value = bt.initial

(***************************************************************************)
(* lpad, rpad, partition and rpartition, with the identity of the objects  *)
(* they return.  `heap` is the sequence of the BitVector objects after the *)
(* call, the receiver being object 1, and `ret` the objects returned, in   *)
(* order.                                                                  *)
(***************************************************************************)
Objects(heap, ret) == [heap |-> heap, ret |-> ret]

rpad(bits, width, fillbit) ==
    IF Len(bits) >= width THEN bits
    ELSE bits \o Repeat(fillbit, width - Len(bits))

\* self.lpad(width, fillbit): self itself when it is wide enough
lpad_objects(self, width, fillbit) ==
    IF Len(self) >= width THEN Objects(<<self>>, <<1>>)
    ELSE Objects(<<self, lpad(self, width, fillbit)>>, <<2>>)

rpad_objects(self, width, fillbit) ==
    IF Len(self) >= width THEN Objects(<<self>>, <<1>>)
    ELSE Objects(<<self, rpad(self, width, fillbit)>>, <<2>>)

\* the three parts around the occurrence of sep at index
parts(self, sep, index) ==
    Objects(<<self, getitem_slice(self, 0, index), sep,
              getitem_slice(self, index + Len(sep), Len(self))>>, <<2, 3, 4>>)

partition(self, sep) ==
    LET index == find(self, sep, 0)
    IN  IF index = -1 THEN Objects(<<self, <<>>, <<>>>>, <<1, 2, 3>>)
        ELSE parts(self, sep, index)

rpartition(self, sep) ==
    LET index == rfind(self, sep)
    IN  IF index = -1 THEN Objects(<<self, <<>>, <<>>>>, <<2, 3, 1>>)
        ELSE parts(self, sep, index)

Receivers == UNION {BitSeqs(n) : n \in 0..MaxReceiverLen}

Widths == 0..(MaxReceiverLen + 1)

Seps == UNION {BitSeqs(n) : n \in 1..MaxSepLen}

Called(method, b, objects) ==
    [op |-> "called", method |-> method, b |-> b, heap |-> objects.heap,
     ret |-> objects.ret, mutated |-> FALSE, err |-> "none", popped |-> <<>>]

Pad(method, b, width, fillbit) ==
    /\ bvec.op = "idle"
    /\ bvec' = Called(method, b, IF method = "lpad" THEN lpad_objects(b, width, fillbit)
                                 ELSE rpad_objects(b, width, fillbit))
    /\ UNCHANGED <<intc, fltc, bt, agg>>

Partition(method, b, sep) ==
    /\ bvec.op = "idle"
    /\ bvec' = Called(method, b, IF method = "partition" THEN partition(b, sep)
                                 ELSE rpartition(b, sep))
    /\ UNCHANGED <<intc, fltc, bt, agg>>

\* returned[k][i] = 1 - returned[k][i]
MutateReturned(k, i) ==
    /\ bvec.op = "called"
    /\ ~bvec.mutated
    /\ k \in 1..Len(bvec.ret)
    /\ i \in 1..Len(bvec.heap[bvec.ret[k]])
    /\ bvec' = [bvec EXCEPT !.heap[bvec.ret[k]] = flip(@, i), !.mutated = TRUE]
    /\ UNCHANGED <<intc, fltc, bt, agg>>

\* one of the in-place methods is called on returned[k]
CallReturned(k, call) ==
    /\ bvec.op = "called"
    /\ ~bvec.mutated
    /\ k \in 1..Len(bvec.ret)
    /\ LET result == call_in_place(call, bvec.heap[bvec.ret[k]])
       IN  bvec' = [bvec EXCEPT !.heap[bvec.ret[k]] = result.self,
                                !.err = result.err, !.popped = result.ret,
                                !.mutated = TRUE]
    /\ UNCHANGED <<intc, fltc, bt, agg>>

NextCalled ==
    \/ /\ bvec.op = "idle"
       /\ \E b \in Receivers :
             \/ \E method \in {"lpad", "rpad"}, width \in Widths, fillbit \in {0, 1} :
                   Pad(method, b, width, fillbit)
             \/ \E method \in {"partition", "rpartition"}, sep \in Seps :
                   Partition(method, b, sep)
    \/ /\ bvec.op = "called"
       /\ \E k \in 1..3, i \in 1..(MaxReceiverLen + 1) : MutateReturned(k, i)
    \/ /\ bvec.op = "called"
       /\ \E k \in 1..3, call \in InPlaceCalls : CallReturned(k, call)
    \/ BvReturn

SpecCalled == InitBitVector /\ [][NextCalled]_vars

(***************************************************************************)
(* Claims about the vectors returned.                                      *)
(***************************************************************************)
\* C30: no BitVector returned by lpad, rpad, partition or rpartition is the
\* receiver, and after a returned BitVector was mutated in place the
\* receiver still holds the bits it had.
C30_ReturnedIndependent ==
    bvec.op = "called"
    => /\ \A k \in 1..Len(bvec.ret) : bvec.ret[k] # 1
       /\ bvec.heap[1] = bvec.b

====
